---- MODULE Spec2Model ----
(***************************************************************************)
(* Bike-fit analysis API (src/src/app/api/analyze/route.ts).               *)
(*                                                                         *)
(* Numbers.  A JavaScript number that is an angle (degrees), an offset     *)
(* (cm), a normalised image coordinate or a score is represented exactly   *)
(* as an integer count of 1/Q units, so that /2, *0.5 and *0.05 of the     *)
(* values on the input grid (tenths of a degree, hundredths of the image   *)
(* width, whole pixels) are exact.  imageWidth is a whole number of        *)
(* pixels.  NaN stands for both NaN and undefined: every comparison with   *)
(* it is false and every arithmetic result on it is NaN, as in JavaScript. *)
(***************************************************************************)
EXTENDS Integers, Sequences, FiniteSets, TLC

Q == 20 * 100                \* units per degree / cm: 1/0.05 times the coordinate grid
NaN == 0 - (1000 * 1000 * 1000)
Deg(n) == n * Q
Tenths(n) == n * (Q \div 10)

IsNum(a) == a # NaN
Add(a, b) == IF IsNum(a) /\ IsNum(b) THEN a + b ELSE NaN
Sub(a, b) == IF IsNum(a) /\ IsNum(b) THEN a - b ELSE NaN
Half(a) == IF IsNum(a) THEN a \div 2 ELSE NaN
Twice(a) == IF IsNum(a) THEN 2 * a ELSE NaN
Lt(a, b) == IsNum(a) /\ IsNum(b) /\ a < b
Gt(a, b) == IsNum(a) /\ IsNum(b) /\ a > b
Le(a, b) == IsNum(a) /\ IsNum(b) /\ a <= b
Ge(a, b) == IsNum(a) /\ IsNum(b) /\ a >= b
MathAbs(a) == IF IsNum(a) THEN (IF a < 0 THEN 0 - a ELSE a) ELSE NaN
MathMin(a, b) == IF IsNum(a) /\ IsNum(b) THEN (IF a < b THEN a ELSE b) ELSE NaN
MathMax(a, b) == IF IsNum(a) /\ IsNum(b) THEN (IF a > b THEN a ELSE b) ELSE NaN
\* Math.round: nearest integer, halves towards +infinity
MathRound(a) == IF IsNum(a) THEN ((2 * a + Q) \div (2 * Q)) * Q ELSE NaN
\* Number.prototype.toFixed(1): the value rounded to one decimal
toFixed1(a) == ((2 * a + (Q \div 10)) \div (2 * (Q \div 10))) * (Q \div 10)

(***************************************************************************)
(* Landmark arrays.  A landmark array is a function on 0..len-1 whose      *)
(* entries are landmark records; an entry that is missing (null) has       *)
(* present = FALSE.  An index outside the array reads as undefined, which  *)
(* is falsy like null.                                                     *)
(***************************************************************************)
NullLandmark == [present |-> FALSE, x |-> 0, y |-> 0]
Landmark(px, py) == [present |-> TRUE, x |-> px, y |-> py]
At(landmarks, i) == IF i \in DOMAIN landmarks THEN landmarks[i] ELSE NullLandmark

RIGHT_KNEE == 25
RIGHT_ANKLE == 27

\* a landmark array of len entries with the given entries at 25 and 27 and
\* a landmark in the middle of the image everywhere else
Filler == Landmark(Q \div 2, Q \div 2)
MkLandmarks(len, knee, ankle) ==
    [i \in 0..(len - 1) |-> IF i = RIGHT_KNEE THEN knee
                            ELSE IF i = RIGHT_ANKLE THEN ankle ELSE Filler]
\* `landmarks || []` of a record without landmarks
EmptyLandmarks == MkLandmarks(0, NullLandmark, NullLandmark)
DefaultImageWidth == 640
KOPSLimit == Deg(2)

\* calculateKOPS throws when the knee or the ankle entry is falsy
calculateKOPSThrows(landmarks) ==
    \/ ~At(landmarks, RIGHT_KNEE).present
    \/ ~At(landmarks, RIGHT_ANKLE).present

\* the width fallback dropped: always the default width
WidthOrDefault_Ignored(imageWidth) == DefaultImageWidth

\* imageWidth || 640
WidthOrDefault(imageWidth) ==
    IF IsNum(imageWidth) /\ imageWidth # 0 THEN imageWidth ELSE DefaultImageWidth

\* the pixel-to-cm factor taken as 0.5
KOPSOffset_HalfFactor(knee, ankle, imageWidth) ==
    ((knee.x - ankle.x) * WidthOrDefault(imageWidth)) \div 2

\* (knee.x - ankle.x) * (imageWidth || 640) * 0.05
KOPSOffset(knee, ankle, imageWidth) ==
    ((knee.x - ankle.x) * WidthOrDefault(imageWidth)) \div 20

calculateKOPS(landmarks, imageWidth) ==
    LET knee == At(landmarks, RIGHT_KNEE)
        ankle == At(landmarks, RIGHT_ANKLE)
        horizontalOffset == KOPSOffset(knee, ankle, imageWidth)
    IN  [kneePosition |-> [x |-> knee.x, y |-> knee.y],
         pedalPosition |-> [x |-> ankle.x, y |-> ankle.y],
         horizontalOffset |-> horizontalOffset,
         isOptimal |-> Le(MathAbs(horizontalOffset), KOPSLimit)]

TorsoIssue == "Significant torso angle variation between pedal positions suggests instability"
ElbowIssue == "Large elbow angle variation indicates excessive reach or poor core stability"
TorsoDeltaLimit == Deg(10)
ElbowDeltaLimit == Deg(15)

\* the consistency analysis with the limits excluded (>= 10, >= 15)
analyzePosturalConsistency_Inclusive(sixOClockAnalysis, threeOClockAnalysis) ==
    LET torsoAngleDifference ==
            MathAbs(Sub(sixOClockAnalysis.torsoAngle, threeOClockAnalysis.torsoAngle))
        elbowAngleDifference ==
            MathAbs(Sub(sixOClockAnalysis.elbowAngle, threeOClockAnalysis.elbowAngle))
        issues ==
            (IF Ge(torsoAngleDifference, TorsoDeltaLimit) THEN <<TorsoIssue>> ELSE <<>>)
            \o (IF Ge(elbowAngleDifference, ElbowDeltaLimit) THEN <<ElbowIssue>> ELSE <<>>)
    IN  [torsoAngleDifference |-> torsoAngleDifference,
         elbowAngleDifference |-> elbowAngleDifference,
         isConsistent |-> (Len(issues) = 0),
         issues |-> issues]

analyzePosturalConsistency(sixOClockAnalysis, threeOClockAnalysis) ==
    LET torsoAngleDifference ==
            MathAbs(Sub(sixOClockAnalysis.torsoAngle, threeOClockAnalysis.torsoAngle))
        elbowAngleDifference ==
            MathAbs(Sub(sixOClockAnalysis.elbowAngle, threeOClockAnalysis.elbowAngle))
        issues ==
            (IF Gt(torsoAngleDifference, TorsoDeltaLimit) THEN <<TorsoIssue>> ELSE <<>>)
            \o (IF Gt(elbowAngleDifference, ElbowDeltaLimit) THEN <<ElbowIssue>> ELSE <<>>)
    IN  [torsoAngleDifference |-> torsoAngleDifference,
         elbowAngleDifference |-> elbowAngleDifference,
         isConsistent |-> (Len(issues) = 0),
         issues |-> issues]

(***************************************************************************)
(* Recommendations                                                         *)
(***************************************************************************)
Rec(type, currentValue, recommendedValue, adjustment, priority, description, basedOn) ==
    [type |-> type, currentValue |-> currentValue, recommendedValue |-> recommendedValue,
     adjustment |-> adjustment, priority |-> priority, description |-> description,
     basedOn |-> basedOn]

\* the priority ranks with low ranked above the others
priorityOrder_LowFirst(p) == CASE p = "high" -> 2 [] p = "medium" -> 1 [] p = "low" -> 3

priorityOrder(p) == CASE p = "high" -> 3 [] p = "medium" -> 2 [] p = "low" -> 1

\* Array.prototype.sort with the comparator priorityOrder[b] - priorityOrder[a];
\* the sort is stable: an element moves in front of exactly those elements
\* the comparator orders it strictly before
RECURSIVE InsertByPriority(_, _)
InsertByPriority(sorted, r) ==
    IF sorted = <<>> THEN <<r>>
    ELSE LET last == sorted[Len(sorted)]
         IN  IF priorityOrder(r.priority) - priorityOrder(last.priority) > 0
             THEN Append(InsertByPriority(SubSeq(sorted, 1, Len(sorted) - 1), r), last)
             ELSE Append(sorted, r)

\* the sort with the comparator reversed (priorityOrder[a] - priorityOrder[b])
RECURSIVE InsertByPriority_Ascending(_, _)
InsertByPriority_Ascending(sorted, r) ==
    IF sorted = <<>> THEN <<r>>
    ELSE LET last == sorted[Len(sorted)]
         IN  IF priorityOrder(last.priority) - priorityOrder(r.priority) > 0
             THEN Append(InsertByPriority_Ascending(SubSeq(sorted, 1, Len(sorted) - 1), r), last)
             ELSE Append(sorted, r)
RECURSIVE SortByPriority_Ascending(_)
SortByPriority_Ascending(recs) ==
    IF recs = <<>> THEN <<>>
    ELSE InsertByPriority_Ascending(SortByPriority_Ascending(SubSeq(recs, 1, Len(recs) - 1)),
                                    recs[Len(recs)])

RECURSIVE SortByPriority(_)
SortByPriority(recs) ==
    IF recs = <<>> THEN <<>>
    ELSE InsertByPriority(SortByPriority(SubSeq(recs, 1, Len(recs) - 1)), recs[Len(recs)])

\* the six o'clock knee rule with the band edges excluded (<= 25, >= 35)
SaddleHeightRule_Inclusive(sixOClockAnalysis) ==
    LET k == sixOClockAnalysis.kneeAngle
    IN  IF Le(k, Deg(25))
        THEN <<Rec("saddle_height", k, Deg(30), "Raise saddle by 5-15mm", "high",
                   <<"too straight, saddle too high", toFixed1(k)>>, "knee_angle")>>
        ELSE IF Ge(k, Deg(35))
        THEN <<Rec("saddle_height", k, Deg(30), "Lower saddle by 5-15mm", "high",
                   <<"too much bend, saddle too low", toFixed1(k)>>, "knee_angle")>>
        ELSE <<>>

\* the six o'clock knee rule (route.ts 85-106)
SaddleHeightRule(sixOClockAnalysis) ==
    LET k == sixOClockAnalysis.kneeAngle
    IN  IF Lt(k, Deg(25))
        THEN <<Rec("saddle_height", k, Deg(30), "Raise saddle by 5-15mm", "high",
                   <<"too straight, saddle too high", toFixed1(k)>>, "knee_angle")>>
        ELSE IF Gt(k, Deg(35))
        THEN <<Rec("saddle_height", k, Deg(30), "Lower saddle by 5-15mm", "high",
                   <<"too much bend, saddle too low", toFixed1(k)>>, "knee_angle")>>
        ELSE <<>>

\* the three o'clock knee check only logs a warning (route.ts 108-112)
ThreeOClockKneeWarning(threeOClockAnalysis) ==
    \/ Lt(threeOClockAnalysis.kneeAngle, Deg(60))
    \/ Gt(threeOClockAnalysis.kneeAngle, Deg(100))

\* the KOPS rule without its second branch (knee behind the axle)
SaddleForeAftRule_ForwardOnly(kopsAnalysis) ==
    IF ~kopsAnalysis.isOptimal /\ Gt(kopsAnalysis.horizontalOffset, Deg(2))
    THEN <<Rec("saddle_fore_aft", kopsAnalysis.horizontalOffset, 0,
               "Move saddle backward 5-10mm", "medium",
               <<"knee too far forward over the pedal axle">>, "kops")>>
    ELSE <<>>

\* the KOPS rule (route.ts 114-137)
SaddleForeAftRule(kopsAnalysis) ==
    IF ~kopsAnalysis.isOptimal
    THEN IF Gt(kopsAnalysis.horizontalOffset, Deg(2))
         THEN <<Rec("saddle_fore_aft", kopsAnalysis.horizontalOffset, 0,
                    "Move saddle backward 5-10mm", "medium",
                    <<"knee too far forward over the pedal axle">>, "kops")>>
         ELSE IF Lt(kopsAnalysis.horizontalOffset, 0 - Deg(2))
         THEN <<Rec("saddle_fore_aft", kopsAnalysis.horizontalOffset, 0,
                    "Move saddle forward 5-10mm", "medium",
                    <<"knee too far behind the pedal axle">>, "kops")>>
         ELSE <<>>
    ELSE <<>>

avgTorsoAngle(sixOClockAnalysis, threeOClockAnalysis) ==
    Half(Add(sixOClockAnalysis.torsoAngle, threeOClockAnalysis.torsoAngle))

avgElbowAngle(sixOClockAnalysis, threeOClockAnalysis) ==
    Half(Add(sixOClockAnalysis.elbowAngle, threeOClockAnalysis.elbowAngle))

\* the torso rule firing on the band edges 35 and 55 as well
HandlebarHeightRule_Inclusive(sixOClockAnalysis, threeOClockAnalysis) ==
    LET avg == avgTorsoAngle(sixOClockAnalysis, threeOClockAnalysis)
    IN  IF Le(avg, Deg(35))
        THEN <<Rec("handlebar_height", avg, Deg(45),
                   "Raise handlebars by 10-20mm or use shorter stem", "medium",
                   <<"very aggressive position">>, "torso_angle")>>
        ELSE IF Ge(avg, Deg(55))
        THEN <<Rec("handlebar_height", avg, Deg(45),
                   "Lower handlebars by 10-20mm", "medium",
                   <<"position is quite upright">>, "torso_angle")>>
        ELSE <<>>

\* the torso rule (route.ts 139-161)
HandlebarHeightRule(sixOClockAnalysis, threeOClockAnalysis) ==
    LET avg == avgTorsoAngle(sixOClockAnalysis, threeOClockAnalysis)
    IN  IF Lt(avg, Deg(35))
        THEN <<Rec("handlebar_height", avg, Deg(45),
                   "Raise handlebars by 10-20mm or use shorter stem", "medium",
                   <<"very aggressive position">>, "torso_angle")>>
        ELSE IF Gt(avg, Deg(55))
        THEN <<Rec("handlebar_height", avg, Deg(45),
                   "Lower handlebars by 10-20mm", "medium",
                   <<"position is quite upright">>, "torso_angle")>>
        ELSE <<>>

\* the elbow rule with the band [150,160] of the single-photo path
StemLengthRule_LegacyBand(sixOClockAnalysis, threeOClockAnalysis) ==
    LET avg == avgElbowAngle(sixOClockAnalysis, threeOClockAnalysis)
    IN  IF Lt(avg, Deg(150))
        THEN <<Rec("stem_length", avg, Deg(155),
                   "Try a longer stem (+10-20mm) or move saddle back", "medium",
                   <<"arms are too bent">>, "elbow_angle")>>
        ELSE IF Gt(avg, Deg(160))
        THEN <<Rec("stem_length", avg, Deg(155),
                   "Try a shorter stem (-10-20mm) or move saddle forward", "medium",
                   <<"arms are too straight/locked">>, "elbow_angle")>>
        ELSE <<>>

\* the elbow rule (route.ts 163-185)
StemLengthRule(sixOClockAnalysis, threeOClockAnalysis) ==
    LET avg == avgElbowAngle(sixOClockAnalysis, threeOClockAnalysis)
    IN  IF Lt(avg, Deg(150))
        THEN <<Rec("stem_length", avg, Deg(155),
                   "Try a longer stem (+10-20mm) or move saddle back", "medium",
                   <<"arms are too bent">>, "elbow_angle")>>
        ELSE IF Gt(avg, Deg(165))
        THEN <<Rec("stem_length", avg, Deg(155),
                   "Try a shorter stem (-10-20mm) or move saddle forward", "medium",
                   <<"arms are too straight/locked">>, "elbow_angle")>>
        ELSE <<>>

\* the consistency rule reporting the torso difference only
CoreStabilityRule_TorsoOnly(posturalConsistency) ==
    IF ~posturalConsistency.isConsistent
    THEN <<Rec("core_stability", posturalConsistency.torsoAngleDifference,
               Deg(5), "Focus on core strengthening and bike fit stability", "low",
               <<"significant postural variations">>, "postural_consistency")>>
    ELSE <<>>

\* the consistency rule (route.ts 187-198)
CoreStabilityRule(posturalConsistency) ==
    IF ~posturalConsistency.isConsistent
    THEN <<Rec("core_stability",
               MathMax(posturalConsistency.torsoAngleDifference,
                       posturalConsistency.elbowAngleDifference),
               Deg(5), "Focus on core strengthening and bike fit stability", "low",
               <<"significant postural variations">>, "postural_consistency")>>
    ELSE <<>>

\* the list as pushed, before the final sort
PushedRecommendations(sixOClockAnalysis, threeOClockAnalysis, kopsAnalysis, posturalConsistency) ==
    SaddleHeightRule(sixOClockAnalysis)
    \o SaddleForeAftRule(kopsAnalysis)
    \o HandlebarHeightRule(sixOClockAnalysis, threeOClockAnalysis)
    \o StemLengthRule(sixOClockAnalysis, threeOClockAnalysis)
    \o CoreStabilityRule(posturalConsistency)

generateEnhancedRecommendations(sixOClockAnalysis, threeOClockAnalysis, kopsAnalysis, posturalConsistency) ==
    SortByPriority(PushedRecommendations(sixOClockAnalysis, threeOClockAnalysis,
                                         kopsAnalysis, posturalConsistency))

\* the legacy rule with the band limits included in the advice
generateLegacyRecommendations_Inclusive(angles) ==
    LET k == angles.kneeAngle
    IN  IF Le(k, Deg(25))
        THEN <<Rec("saddle_height", k, Deg(30), "Raise saddle by 5-10mm", "high",
                   <<"too straight, consider raising", toFixed1(k)>>, "knee_angle")>>
        ELSE IF Ge(k, Deg(35))
        THEN <<Rec("saddle_height", k, Deg(30), "Lower saddle by 5-10mm", "high",
                   <<"too much bend, consider lowering", toFixed1(k)>>, "knee_angle")>>
        ELSE <<>>

generateLegacyRecommendations(angles) ==
    LET k == angles.kneeAngle
    IN  IF Lt(k, Deg(25))
        THEN <<Rec("saddle_height", k, Deg(30), "Raise saddle by 5-10mm", "high",
                   <<"too straight, consider raising", toFixed1(k)>>, "knee_angle")>>
        ELSE IF Gt(k, Deg(35))
        THEN <<Rec("saddle_height", k, Deg(30), "Lower saddle by 5-10mm", "high",
                   <<"too much bend, consider lowering", toFixed1(k)>>, "knee_angle")>>
        ELSE <<>>

(***************************************************************************)
(* Scores.  Each deduction is the amount one `score -= ...` statement      *)
(* takes off; a statement whose condition is false takes off 0.            *)
(***************************************************************************)
\* the six o'clock deduction measured from the band centre, as the legacy score does
SixOClockKneeDeduction_FromCentre(sixOClockAnalysis) ==
    LET k == sixOClockAnalysis.kneeAngle
    IN  IF Lt(k, Deg(25)) \/ Gt(k, Deg(35))
        THEN Twice(MathAbs(Sub(k, Deg(30))))
        ELSE 0

SixOClockKneeDeduction(sixOClockAnalysis) ==
    LET k == sixOClockAnalysis.kneeAngle
    IN  IF Lt(k, Deg(25)) \/ Gt(k, Deg(35))
        THEN Twice(MathMin(MathAbs(Sub(k, Deg(25))), MathAbs(Sub(k, Deg(35)))))
        ELSE 0

\* the three o'clock deduction with the band edges excluded (<= 60, >= 100)
ThreeOClockKneeDeduction_Inclusive(threeOClockAnalysis) ==
    IF Le(threeOClockAnalysis.kneeAngle, Deg(60)) \/ Ge(threeOClockAnalysis.kneeAngle, Deg(100))
    THEN Deg(10)
    ELSE 0

ThreeOClockKneeDeduction(threeOClockAnalysis) ==
    IF Lt(threeOClockAnalysis.kneeAngle, Deg(60)) \/ Gt(threeOClockAnalysis.kneeAngle, Deg(100))
    THEN Deg(10)
    ELSE 0

\* the torso term deducted for every mean, inside the band as well
TorsoDeduction_Unconditional(sixOClockAnalysis, threeOClockAnalysis) ==
    MathAbs(Sub(avgTorsoAngle(sixOClockAnalysis, threeOClockAnalysis), Deg(45)))

\* route.ts 226-229
TorsoDeduction(sixOClockAnalysis, threeOClockAnalysis) ==
    LET avg == avgTorsoAngle(sixOClockAnalysis, threeOClockAnalysis)
    IN  IF Lt(avg, Deg(35)) \/ Gt(avg, Deg(55))
        THEN MathAbs(Sub(avg, Deg(45)))
        ELSE 0

ElbowDeduction(sixOClockAnalysis, threeOClockAnalysis) ==
    LET avg == avgElbowAngle(sixOClockAnalysis, threeOClockAnalysis)
    IN  IF Lt(avg, Deg(150)) \/ Gt(avg, Deg(165))
        THEN Half(MathAbs(Sub(avg, Tenths(1575))))
        ELSE 0

\* the KOPS term deducted for optimal results as well
KOPSDeduction_Unconditional(kopsAnalysis) ==
    Twice(MathAbs(kopsAnalysis.horizontalOffset))

\* route.ts 236-239
KOPSDeduction(kopsAnalysis) ==
    IF ~kopsAnalysis.isOptimal
    THEN Twice(MathAbs(kopsAnalysis.horizontalOffset))
    ELSE 0

ConsistencyDeduction(posturalConsistency) ==
    IF ~posturalConsistency.isConsistent
    THEN Half(Add(posturalConsistency.torsoAngleDifference,
                  posturalConsistency.elbowAngleDifference))
    ELSE 0

\* the value of `score` when the return statement is reached
EnhancedRawScore(sixOClockAnalysis, threeOClockAnalysis, kopsAnalysis, posturalConsistency) ==
    Sub(Sub(Sub(Sub(Sub(Sub(Deg(100),
        SixOClockKneeDeduction(sixOClockAnalysis)),
        ThreeOClockKneeDeduction(threeOClockAnalysis)),
        TorsoDeduction(sixOClockAnalysis, threeOClockAnalysis)),
        ElbowDeduction(sixOClockAnalysis, threeOClockAnalysis)),
        KOPSDeduction(kopsAnalysis)),
        ConsistencyDeduction(posturalConsistency))

\* ClampScore without the lower clamp Math.max(0, ...)
ClampScore_NoFloor(score) == MathMin(Deg(100), MathRound(score))

\* Math.max(0, Math.min(100, Math.round(score)))
ClampScore(score) == MathMax(0, MathMin(Deg(100), MathRound(score)))

calculateEnhancedScore(sixOClockAnalysis, threeOClockAnalysis, kopsAnalysis, posturalConsistency) ==
    ClampScore(EnhancedRawScore(sixOClockAnalysis, threeOClockAnalysis,
                                kopsAnalysis, posturalConsistency))

LegacyRawScore(angles) ==
    LET kneeD == IF Lt(angles.kneeAngle, Deg(25)) \/ Gt(angles.kneeAngle, Deg(35))
                 THEN Twice(MathAbs(Sub(angles.kneeAngle, Deg(30)))) ELSE 0
        torsoD == IF Lt(angles.torsoAngle, Deg(35)) \/ Gt(angles.torsoAngle, Deg(55))
                  THEN MathAbs(Sub(angles.torsoAngle, Deg(45))) ELSE 0
        elbowD == IF Lt(angles.elbowAngle, Deg(150)) \/ Gt(angles.elbowAngle, Deg(160))
                  THEN Half(MathAbs(Sub(angles.elbowAngle, Deg(155)))) ELSE 0
    IN  Sub(Sub(Sub(Deg(100), kneeD), torsoD), elbowD)

calculateLegacyScore(angles) == ClampScore(LegacyRawScore(angles))

(***************************************************************************)
(* The request handler                                                     *)
(***************************************************************************)
\* a PoseAnalysis that is missing from its photo (undefined)
NoAnalysis ==
    [present |-> FALSE, kneeAngle |-> NaN, torsoAngle |-> NaN, elbowAngle |-> NaN,
     reachDistance |-> NaN, saddleHeight |-> NaN, landmarks |-> EmptyLandmarks,
     imageWidth |-> NaN, pedalPosition |-> "none"]

\* the fallback KOPS result flagged as not optimal
NeutralKOPS_NotOptimal ==
    [kneePosition |-> [x |-> Q \div 2, y |-> Q \div 2],
     pedalPosition |-> [x |-> Q \div 2, y |-> Q \div 2],
     horizontalOffset |-> 0,
     isOptimal |-> FALSE]

NeutralKOPS ==
    [kneePosition |-> [x |-> Q \div 2, y |-> Q \div 2],
     pedalPosition |-> [x |-> Q \div 2, y |-> Q \div 2],
     horizontalOffset |-> 0,
     isOptimal |-> TRUE]

ErrorResponse(status, message) == [status |-> status, kind |-> "error", error |-> message]
ServerError ==
    ErrorResponse(500, "Failed to analyze data. Please ensure you uploaded clear side-view photos.")

\* the photos taken by their place in the array: the first as six o'clock,
\* the second as three o'clock
FindPhoto_ByIndex(photos, position) ==
    LET i == IF position = "6-oclock" THEN 1 ELSE 2
    IN  IF i \in 1..Len(photos)
        THEN [found |-> TRUE, position |-> position, analysis |-> photos[i].analysis]
        ELSE [found |-> FALSE, position |-> position, analysis |-> NoAnalysis]

\* Array.prototype.find on the position tag: the first photo carrying it
RECURSIVE FindPhoto(_, _)
FindPhoto(photos, position) ==
    IF photos = <<>> THEN [found |-> FALSE, position |-> position, analysis |-> NoAnalysis]
    ELSE IF Head(photos).position = position
         THEN [found |-> TRUE, position |-> position, analysis |-> Head(photos).analysis]
         ELSE FindPhoto(Tail(photos), position)

\* the tiers starting strictly above 80 and 60
EnhancedSummary_Strict(overallScore) ==
    IF Gt(overallScore, Deg(80))
    THEN "Excellent bike fit! Your two-position analysis shows consistent, optimal positioning."
    ELSE IF Gt(overallScore, Deg(60))
    THEN "Good bike fit foundation. The comprehensive analysis identified specific areas for improvement."
    ELSE "Comprehensive analysis reveals significant opportunities to optimize your bike fit for comfort and performance."

\* route.ts 378-382
EnhancedSummary(overallScore) ==
    IF Ge(overallScore, Deg(80))
    THEN "Excellent bike fit! Your two-position analysis shows consistent, optimal positioning."
    ELSE IF Ge(overallScore, Deg(60))
    THEN "Good bike fit foundation. The comprehensive analysis identified specific areas for improvement."
    ELSE "Comprehensive analysis reveals significant opportunities to optimize your bike fit for comfort and performance."

LegacySummary(overallScore, isRealAnalysis) ==
    IF isRealAnalysis
    THEN IF Ge(overallScore, Deg(80))
         THEN "Good bike fit! Consider upgrading to two-photo analysis for comprehensive recommendations. (AI Analysis)"
         ELSE IF Ge(overallScore, Deg(60))
         THEN "Decent foundation. Upgrade to two-photo analysis for detailed KOPS and consistency evaluation. (AI Analysis)"
         ELSE "Single-photo analysis shows areas for improvement. Two-photo analysis recommended for complete assessment. (AI Analysis)"
    ELSE IF Ge(overallScore, Deg(80))
         THEN "Great bike fit! Minor adjustments could optimize your position further."
         ELSE IF Ge(overallScore, Deg(60))
         THEN "Good foundation with room for improvement."
         ELSE "Significant adjustments needed for optimal comfort and performance."

\* the try/catch around calculateKOPS (route.ts 334-350)
KOPSFallbackTaken(threeOClockAnalysis) == calculateKOPSThrows(threeOClockAnalysis.landmarks)

KOPSOrNeutral(threeOClockAnalysis) ==
    IF KOPSFallbackTaken(threeOClockAnalysis)
    THEN NeutralKOPS
    ELSE calculateKOPS(threeOClockAnalysis.landmarks, threeOClockAnalysis.imageWidth)

\* the two-photo branch with the width fallback written back into the three
\* o'clock record (`analysis.imageWidth ||= 640`)
EnhancedResult_WidthWrittenBack(sixOClockAnalysis, threeOClockAnalysis) ==
    IF ~sixOClockAnalysis.present \/ ~threeOClockAnalysis.present
    THEN ServerError
    ELSE LET kopsAnalysis == KOPSOrNeutral(threeOClockAnalysis)
             posturalConsistency ==
                 analyzePosturalConsistency(sixOClockAnalysis, threeOClockAnalysis)
             recommendations ==
                 generateEnhancedRecommendations(sixOClockAnalysis, threeOClockAnalysis,
                                                 kopsAnalysis, posturalConsistency)
             overallScore ==
                 calculateEnhancedScore(sixOClockAnalysis, threeOClockAnalysis,
                                        kopsAnalysis, posturalConsistency)
         IN  [status |-> 200, kind |-> "enhanced",
              sixOClockAnalysis |-> sixOClockAnalysis,
              threeOClockAnalysis |->
                  [threeOClockAnalysis EXCEPT !.imageWidth = WidthOrDefault(@)],
              kopsAnalysis |-> kopsAnalysis,
              posturalConsistency |-> posturalConsistency,
              recommendations |-> recommendations,
              overallScore |-> overallScore,
              summary |-> EnhancedSummary(overallScore)]

\* the two-photo branch once both tagged photos were found (route.ts 331-386)
EnhancedResult(sixOClockAnalysis, threeOClockAnalysis) ==
    IF ~sixOClockAnalysis.present \/ ~threeOClockAnalysis.present
    THEN ServerError          \* property read on undefined, caught by the outer catch
    ELSE LET kopsAnalysis == KOPSOrNeutral(threeOClockAnalysis)
             posturalConsistency ==
                 analyzePosturalConsistency(sixOClockAnalysis, threeOClockAnalysis)
             recommendations ==
                 generateEnhancedRecommendations(sixOClockAnalysis, threeOClockAnalysis,
                                                 kopsAnalysis, posturalConsistency)
             overallScore ==
                 calculateEnhancedScore(sixOClockAnalysis, threeOClockAnalysis,
                                        kopsAnalysis, posturalConsistency)
         IN  [status |-> 200, kind |-> "enhanced",
              sixOClockAnalysis |-> sixOClockAnalysis,
              threeOClockAnalysis |-> threeOClockAnalysis,
              kopsAnalysis |-> kopsAnalysis,
              posturalConsistency |-> posturalConsistency,
              recommendations |-> recommendations,
              overallScore |-> overallScore,
              summary |-> EnhancedSummary(overallScore)]

\* the body.angles branch (route.ts 388-413)
LegacyResult(angles, isRealAnalysis) ==
    LET overallScore == calculateLegacyScore(angles)
    IN  [status |-> 200, kind |-> "legacy",
         angles |-> angles,
         recommendations |-> generateLegacyRecommendations(angles),
         overallScore |-> overallScore,
         summary |-> LegacySummary(overallScore, isRealAnalysis)]

\* the FormData branch after the mock analysis was drawn (route.ts 436-447)
MockResult(angles) ==
    [status |-> 200, kind |-> "mock",
     angles |-> angles,
     recommendations |-> generateLegacyRecommendations(angles),
     overallScore |-> calculateLegacyScore(angles),
     summary |-> "Mock analysis completed. Upload new photos for AI-powered analysis."]

\* the JSON branch of POST (route.ts 313-414, 450-453)
JsonResult(b) ==
    IF b.photosIsArray /\ Len(b.photos) = 2
    THEN LET sixOClockPhoto == FindPhoto(b.photos, "6-oclock")
             threeOClockPhoto == FindPhoto(b.photos, "3-oclock")
         IN  IF ~sixOClockPhoto.found \/ ~threeOClockPhoto.found
             THEN ErrorResponse(400, "Both 6 o'clock and 3 o'clock photos are required")
             ELSE EnhancedResult(sixOClockPhoto.analysis, threeOClockPhoto.analysis)
    ELSE IF b.angles.present
    THEN LegacyResult(b.angles, b.isRealAnalysis)
    ELSE ErrorResponse(400, "Invalid request format")

\* console.warn output of the two-photo branch: the KOPS fallback warns
\* before the consistency analysis reads the six o'clock record, the knee
\* warning is issued inside generateEnhancedRecommendations
Warnings(b) ==
    IF b.contentType = "json" /\ b.parses /\ b.photosIsArray /\ Len(b.photos) = 2
    THEN LET six == FindPhoto(b.photos, "6-oclock")
             three == FindPhoto(b.photos, "3-oclock")
         IN  IF six.found /\ three.found /\ three.analysis.present
             THEN (IF KOPSFallbackTaken(three.analysis)
                   THEN {"KOPS calculation failed"} ELSE {})
                  \cup (IF six.analysis.present /\ ThreeOClockKneeWarning(three.analysis)
                        THEN {"Unexpected 3 o'clock knee angle"} ELSE {})
             ELSE {}
    ELSE {}

(***************************************************************************)
(* Requests                                                                *)
(***************************************************************************)
MaxTorsoSteps == 3      \* torso angles 30, 40, ... on a 10 degree grid
MaxKneeSteps == 1       \* six o'clock knee angles 20, 90, ... on a 70 degree grid
MaxPhotos == 3          \* longest photo array of a request
MaxFiles == 1           \* most image files of a FormData request

KneeSixAngles ==
    {Deg(25) - Tenths(1), Deg(25), Deg(35), Deg(35) + Tenths(1)}
    \cup {Deg(20) + i * Deg(70) : i \in 0..MaxKneeSteps}
KneeThreeAngles == {Deg(60) - Tenths(1), Deg(60), Deg(100), Deg(150)}
TorsoAngles == {Deg(30) + i * Deg(10) : i \in 0..MaxTorsoSteps}
ElbowSixAngles == {Deg(140), Deg(180)}
ElbowThreeAngles == {Deg(150), Deg(160), Deg(165)}
ImageWidths == {NaN, 0, 200, 800}
\* normalised x coordinates of the knee; the ankle is kept at AnkleX
AnkleX == Q \div 2
KneeXs == {AnkleX + d * (Q \div 100) : d \in {0 - 10, 0 - 5, 0, 5, 10}}

FullLandmarks(kneeX) ==
    MkLandmarks(33, Landmark(kneeX, (6 * Q) \div 10), Landmark(AnkleX, (8 * Q) \div 10))
\* arrays from which calculateKOPS cannot read the knee or the ankle
BrokenLandmarks ==
    { EmptyLandmarks,
      MkLandmarks(26, Landmark(AnkleX, (6 * Q) \div 10), NullLandmark),
      MkLandmarks(33, NullLandmark, Landmark(AnkleX, (8 * Q) \div 10)),
      MkLandmarks(33, Landmark(AnkleX, (6 * Q) \div 10), NullLandmark) }

Analysis(knee, torso, elbow, landmarks, imageWidth, position) ==
    [present |-> TRUE, kneeAngle |-> knee, torsoAngle |-> torso, elbowAngle |-> elbow,
     reachDistance |-> Deg(45), saddleHeight |-> Deg(72), landmarks |-> landmarks,
     imageWidth |-> imageWidth, pedalPosition |-> position]

SixAnalyses ==
    { Analysis(k, t, e, FullLandmarks(AnkleX), 800, "6-oclock") :
        k \in KneeSixAngles, t \in TorsoAngles, e \in ElbowSixAngles }

\* every angle combination, with a forward and an unreadable KOPS
ThreeAnalysesByAngle ==
    { Analysis(k, t, e, lw[1], lw[2], "3-oclock") :
        k \in KneeThreeAngles, t \in TorsoAngles, e \in ElbowThreeAngles,
        lw \in { <<FullLandmarks(AnkleX + 10 * (Q \div 100)), 800>>,
                 <<MkLandmarks(33, Landmark(AnkleX, (6 * Q) \div 10), NullLandmark), 800>> } }

\* every KOPS input, with a few angle combinations
ThreeAnalysesByKOPS ==
    { Analysis(k, t, Deg(160), l, w, "3-oclock") :
        k \in {Deg(60), Deg(150)}, t \in {Deg(40), Deg(60)},
        l \in {FullLandmarks(x) : x \in KneeXs} \cup BrokenLandmarks,
        w \in ImageWidths }
SixAnalysesForKOPS ==
    { Analysis(k, Deg(45), Deg(165), FullLandmarks(AnkleX), 800, "6-oclock") :
        k \in {Deg(25), Deg(90)} }

Photo(position, analysis) == [position |-> position, analysis |-> analysis]

JsonBody(photosIsArray, photos, angles, isRealAnalysis) ==
    [contentType |-> "json", parses |-> TRUE, photosIsArray |-> photosIsArray,
     photos |-> photos, angles |-> angles, isRealAnalysis |-> isRealAnalysis, files |-> 0]

TwoPhotoBodies ==
    { JsonBody(TRUE, <<Photo("6-oclock", a6), Photo("3-oclock", a3)>>, NoAnalysis, TRUE) :
        a6 \in SixAnalyses, a3 \in ThreeAnalysesByAngle }
    \cup
    { JsonBody(TRUE, <<Photo("6-oclock", a6), Photo("3-oclock", a3)>>, NoAnalysis, TRUE) :
        a6 \in SixAnalysesForKOPS, a3 \in ThreeAnalysesByKOPS }

\* the same photos in the other array order
ReversedBodies ==
    { JsonBody(TRUE, <<Photo("3-oclock", a3), Photo("6-oclock", a6)>>, NoAnalysis, TRUE) :
        a6 \in SixAnalysesForKOPS, a3 \in ThreeAnalysesByKOPS }

\* records from which angle fields or the whole analysis are missing
PartialAnalyses(position) ==
    { Analysis(k, t, e, FullLandmarks(AnkleX), 800, position) :
        k \in {NaN, Deg(20)}, t \in {NaN, Deg(60)}, e \in {NaN, Deg(140), Deg(160)} }
    \cup {NoAnalysis}
PartialBodies ==
    { JsonBody(TRUE, <<Photo("6-oclock", a6), Photo("3-oclock", a3)>>, NoAnalysis, TRUE) :
        a6 \in PartialAnalyses("6-oclock"), a3 \in PartialAnalyses("3-oclock") }

LegacyAngles ==
    { Analysis(k, t, e, FullLandmarks(AnkleX), 800, "6-oclock") :
        k \in KneeSixAngles \cup {Deg(30)}, t \in TorsoAngles,
        e \in ElbowSixAngles \cup ElbowThreeAngles }
    \cup { Analysis(NaN, NaN, NaN, EmptyLandmarks, NaN, "none") }
LegacyBodies ==
    { JsonBody(FALSE, <<>>, a, r) : a \in LegacyAngles, r \in BOOLEAN }

\* photo arrays that are not one six o'clock and one three o'clock photo
SampleSix == Analysis(Deg(20), Deg(60), Deg(140), FullLandmarks(AnkleX), 800, "6-oclock")
SampleThree ==
    Analysis(Deg(150), Deg(40), Deg(160), FullLandmarks(AnkleX + 10 * (Q \div 100)), 800, "3-oclock")
SamplePhotos == {Photo("6-oclock", SampleSix), Photo("3-oclock", SampleThree)}
RECURSIVE PhotoSeqs(_)
PhotoSeqs(n) ==
    IF n = 0 THEN {<<>>}
    ELSE {Append(ps, p) : ps \in PhotoSeqs(n - 1), p \in SamplePhotos}
BadPhotoSeqs ==
    { ps \in UNION {PhotoSeqs(n) : n \in 0..MaxPhotos} :
        \/ Len(ps) # 2
        \/ ~FindPhoto(ps, "6-oclock").found
        \/ ~FindPhoto(ps, "3-oclock").found }
BadPhotoBodies ==
    { JsonBody(TRUE, ps, a, TRUE) : ps \in BadPhotoSeqs, a \in {NoAnalysis, SampleSix} }
    \cup { JsonBody(FALSE, <<>>, NoAnalysis, r) : r \in BOOLEAN }

\* requests that are not JSON (FormData with some image files) or do not parse
FormBodies ==
    { [contentType |-> "form", parses |-> TRUE, photosIsArray |-> FALSE, photos |-> <<>>,
       angles |-> NoAnalysis, isRealAnalysis |-> FALSE, files |-> n] : n \in 0..MaxFiles }
UnparsableBodies ==
    { [contentType |-> c, parses |-> FALSE, photosIsArray |-> FALSE, photos |-> <<>>,
       angles |-> NoAnalysis, isRealAnalysis |-> FALSE, files |-> 0] : c \in {"json", "form"} }

\* a rider inside every band: knee 28 and 80, torso 42 and 44, elbow 155 and 158,
\* knee 0.05 of a 200 pixel wide image ahead of the ankle (0.5 cm)
ScenarioASix(torso, elbow) ==
    Analysis(Deg(28), torso, elbow, FullLandmarks(AnkleX), 800, "6-oclock")
ScenarioAThree(torso, elbow) ==
    Analysis(Deg(80), torso, elbow, FullLandmarks(AnkleX + 5 * (Q \div 100)), 200, "3-oclock")
ScenarioABodies ==
    { JsonBody(TRUE, <<Photo("6-oclock", ScenarioASix(t[1], e[1])),
                       Photo("3-oclock", ScenarioAThree(t[2], e[2]))>>, NoAnalysis, TRUE) :
        t \in {<<Deg(42), Deg(44)>>, <<Deg(44), Deg(42)>>},
        e \in {<<Deg(155), Deg(158)>>, <<Deg(158), Deg(155)>>} }

\* riders whose only deduction is the six o'clock knee: scores 80, 79.5, 79.4, 79,
\* 60, 59.5, 59.4 and 59 before rounding
TierDeductions == {Deg(20), Tenths(205), Tenths(206), Deg(21),
                   Deg(40), Tenths(405), Tenths(406), Deg(41)}
TierBodies ==
    { JsonBody(TRUE, <<Photo("6-oclock", [ScenarioASix(Deg(42), Deg(155))
                                            EXCEPT !.kneeAngle = Deg(25) - (d \div 2)]),
                       Photo("3-oclock", ScenarioAThree(Deg(44), Deg(158)))>>,
               NoAnalysis, TRUE) : d \in TierDeductions }
    \cup
    { JsonBody(FALSE, <<>>, [ScenarioASix(Deg(42), Deg(155))
                              EXCEPT !.kneeAngle = Deg(30) - (d \div 2)], r) :
        d \in TierDeductions, r \in BOOLEAN }

Bodies ==
    TwoPhotoBodies \cup ReversedBodies \cup PartialBodies \cup LegacyBodies
    \cup BadPhotoBodies \cup FormBodies \cup UnparsableBodies
    \cup ScenarioABodies \cup TierBodies

\* generateMockAnalysis: Math.random() in [0, 1) scaled per field
MockAnalyses ==
    { [present |-> TRUE, kneeAngle |-> Deg(28) + rk, torsoAngle |-> Deg(40) + rt,
       elbowAngle |-> Deg(150) + re, reachDistance |-> Deg(45), saddleHeight |-> Deg(72),
       landmarks |-> EmptyLandmarks, imageWidth |-> NaN, pedalPosition |-> "none"] :
        rk \in {0, Deg(10) - Tenths(1)}, rt \in {0, Deg(20) - Tenths(1)},
        re \in {0, Deg(15) - Tenths(1)} }

(***************************************************************************)
(* Feature extraction in the browser (lib/poseAnalysis, src/unnamed/       *)
(* part_005 from line 356).  Angles are computed from directions between   *)
(* landmarks; Math.atan2 is tabulated, in degrees, for the directions the  *)
(* landmark grid below produces: along the axes, along the diagonals and   *)
(* with slopes 1:2 and 2:1.  Any other direction is outside the table and  *)
(* stops the evaluation.                                                   *)
(***************************************************************************)
POSE_LANDMARKS ==
    [LEFT_SHOULDER |-> 11, RIGHT_SHOULDER |-> 12, LEFT_ELBOW |-> 13, RIGHT_ELBOW |-> 14,
     LEFT_WRIST |-> 15, RIGHT_WRIST |-> 16, LEFT_HIP |-> 23, RIGHT_HIP |-> 24,
     LEFT_KNEE |-> 25, RIGHT_KNEE |-> 26, LEFT_ANKLE |-> 27, RIGHT_ANKLE |-> 28]
MinLandmarks == 33

\* atan(1/2) and atan(2) in degrees, to the nearest 1/Q
AtanHalf == 53130
AtanTwo == 126870

\* Math.atan2(dy, dx) * 180 / Math.PI; atan2(0, 0) = 0, atan2(0, dx < 0) = 180
Atan2Deg(dy, dx) ==
    LET ax == IF dx < 0 THEN 0 - dx ELSE dx
        ay == IF dy < 0 THEN 0 - dy ELSE dy
        first == CASE ay = 0 -> 0
                   [] ax = 0 /\ ay # 0 -> Deg(90)
                   [] ax # 0 /\ ay = ax -> Deg(45)
                   [] ay # 0 /\ 2 * ay = ax -> AtanHalf
                   [] ax # 0 /\ ay = 2 * ax -> AtanTwo
    IN  IF dx >= 0 THEN (IF dy >= 0 THEN first ELSE 0 - first)
        ELSE (IF dy >= 0 THEN Deg(180) - first ELSE first - Deg(180))

\* the interior angle without the fold at 180
calculateInteriorAngle_Unfolded(a, b, c) ==
    MathAbs(Atan2Deg(c.y - b.y, c.x - b.x) - Atan2Deg(a.y - b.y, a.x - b.x))

\* part_005 380-389
calculateInteriorAngle(a, b, c) ==
    LET angle == MathAbs(Atan2Deg(c.y - b.y, c.x - b.x) - Atan2Deg(a.y - b.y, a.x - b.x))
    IN  IF angle > Deg(180) THEN Deg(360) - angle ELSE angle

calculateKneeBendAngle(hip, knee, ankle) == Deg(180) - calculateInteriorAngle(hip, knee, ankle)

\* Math.round(v * 10) / 10 of a value v >= 0
RoundTenth(v) == ((2 * v + (Q \div 10)) \div (2 * (Q \div 10))) * (Q \div 10)

\* Math.round(Math.sqrt(s) * 100 * 10) / 10 for s = dx^2 + dy^2 in squared
\* coordinate units: the largest n tenths with (2n - 1)^2 <= s, found by
\* bisection of lo..hi
RECURSIVE RoundedRoot(_, _, _)
RoundedRoot(s, lo, hi) ==
    IF lo = hi THEN lo
    ELSE LET mid == (lo + hi + 1) \div 2
         IN  IF (2 * mid - 1) * (2 * mid - 1) <= s
             THEN RoundedRoot(s, mid, hi)
             ELSE RoundedRoot(s, lo, mid - 1)
calculateDistance100(a, b) ==
    RoundedRoot((a.x - b.x) * (a.x - b.x) + (a.y - b.y) * (a.y - b.y), 0, Q) * (Q \div 10)

\* the outcome of a call: a returned value or a thrown/rejected Error
Returned(analysis) == [ok |-> TRUE, analysis |-> analysis, message |-> <<>>]
Thrown(message) == [ok |-> FALSE, analysis |-> NoAnalysis, message |-> message]

\* the six joints analyzeBikeFit reads (the right side of the body)
RequiredJoints ==
    {POSE_LANDMARKS.RIGHT_SHOULDER, POSE_LANDMARKS.RIGHT_ELBOW, POSE_LANDMARKS.RIGHT_WRIST,
     POSE_LANDMARKS.RIGHT_HIP, POSE_LANDMARKS.RIGHT_KNEE, POSE_LANDMARKS.RIGHT_ANKLE}
\* the two validations of analyzeBikeFit (part_005 409-424)
InsufficientLandmarks(landmarks) == Cardinality(DOMAIN landmarks) < MinLandmarks
MissingBodyParts(landmarks) == \E j \in RequiredJoints : ~At(landmarks, j).present

\* the length test dropped from analyzeBikeFit
analyzeBikeFitThrows_NoLengthCheck(landmarks) == MissingBodyParts(landmarks)

analyzeBikeFitThrows(landmarks) ==
    InsufficientLandmarks(landmarks) \/ MissingBodyParts(landmarks)

\* imageElement?.naturalWidth || imageElement?.width
ElementWidth(naturalWidth, width) ==
    IF naturalWidth # 0 THEN naturalWidth ELSE width

analyzeBikeFit(landmarks, pedalPosition, imageWidth) ==
    IF analyzeBikeFitThrows(landmarks)
    THEN (IF InsufficientLandmarks(landmarks)
          THEN Thrown(<<"Insufficient pose landmarks detected">>)
          ELSE Thrown(<<"Could not detect all required body parts">>))
    ELSE LET shoulder == At(landmarks, POSE_LANDMARKS.RIGHT_SHOULDER)
             elbow == At(landmarks, POSE_LANDMARKS.RIGHT_ELBOW)
             wrist == At(landmarks, POSE_LANDMARKS.RIGHT_WRIST)
             hip == At(landmarks, POSE_LANDMARKS.RIGHT_HIP)
             knee == At(landmarks, POSE_LANDMARKS.RIGHT_KNEE)
             ankle == At(landmarks, POSE_LANDMARKS.RIGHT_ANKLE)
             verticalReference == Landmark(hip.x, hip.y - (Q \div 10))
         IN  Returned(
               [present |-> TRUE,
                kneeAngle |-> RoundTenth(calculateKneeBendAngle(hip, knee, ankle)),
                torsoAngle |-> RoundTenth(calculateInteriorAngle(verticalReference, hip, shoulder)),
                elbowAngle |-> RoundTenth(calculateInteriorAngle(shoulder, elbow, wrist)),
                reachDistance |-> RoundTenth(100 * MathAbs(shoulder.x - wrist.x)),
                saddleHeight |-> calculateDistance100(hip, ankle),
                landmarks |-> landmarks,
                imageWidth |-> imageWidth,
                pedalPosition |-> pedalPosition])

\* Error messages are sequences of text fragments, so that template strings
\* are concatenations and String.prototype.includes is a test on fragments.
NoPoseText ==
    "No pose detected in image. Please ensure you are clearly visible in a side-view position with good lighting."
Includes(message, needle) ==
    \E i \in 1..Len(message) :
        CASE needle = "No pose detected" -> message[i] = NoPoseText
          [] needle = "side-view" -> message[i] = NoPoseText
          [] needle = "landmarks" -> message[i] = "Insufficient pose landmarks detected"
          [] needle = "body parts" -> message[i] = "Could not detect all required body parts"
          [] needle = "MediaPipe" ->
               message[i] = "MediaPipe libraries not loaded. Please refresh the page and try again."

\* what MediaPipe and the image element deliver for a file: whether the
\* image loads, its natural width, and results.poseLandmarks (empty when no
\* pose was found)
Detection(loaded, naturalWidth, poseLandmarks) ==
    [loaded |-> loaded, naturalWidth |-> naturalWidth, poseLandmarks |-> poseLandmarks]
NoDetection == Detection(FALSE, 0, EmptyLandmarks)

\* processImageForBikeFit once the image and MediaPipe have answered
\* (part_005 474-567); imageData is not modelled
processImageForBikeFit(detection, pedalPosition) ==
    IF ~detection.loaded
    THEN Thrown(<<"Failed to load image. Please try a different image format.">>)
    ELSE IF Cardinality(DOMAIN detection.poseLandmarks) = 0
    THEN Thrown(<<NoPoseText>>)
    ELSE LET r == analyzeBikeFit(detection.poseLandmarks, pedalPosition,
                                 ElementWidth(detection.naturalWidth, detection.naturalWidth))
         IN  IF r.ok THEN r
             ELSE Thrown(<<"Failed to analyze bike fit: ">> \o r.message)

\* a landmark array of len entries with the given joints and a landmark in
\* the middle of the image everywhere else
PoseArray(len, joints) ==
    [i \in 0..(len - 1) |-> IF i \in DOMAIN joints THEN joints[i] ELSE Filler]
\* landmark coordinates in tenths of the image
G(px, py) == Landmark(px * (Q \div 10), py * (Q \div 10))
\* a rider with knee bend 26.6, torso 45 and elbow 161.6, knee above the pedal
RiderA ==
    (POSE_LANDMARKS.RIGHT_SHOULDER :> G(6, 4)) @@ (POSE_LANDMARKS.RIGHT_ELBOW :> G(7, 5))
    @@ (POSE_LANDMARKS.RIGHT_WRIST :> G(9, 6)) @@ (POSE_LANDMARKS.RIGHT_HIP :> G(5, 5))
    @@ (POSE_LANDMARKS.RIGHT_KNEE :> G(6, 7)) @@ (POSE_LANDMARKS.RIGHT_ANKLE :> G(6, 9))
    @@ (POSE_LANDMARKS.LEFT_KNEE :> G(6, 7)) @@ (POSE_LANDMARKS.LEFT_ANKLE :> G(6, 9))
\* a rider with knee bend 63.4, torso 63.4 and elbow 135, knee ahead of the pedal
RiderB ==
    (POSE_LANDMARKS.RIGHT_SHOULDER :> G(7, 4)) @@ (POSE_LANDMARKS.RIGHT_ELBOW :> G(8, 5))
    @@ (POSE_LANDMARKS.RIGHT_WRIST :> G(9, 5)) @@ (POSE_LANDMARKS.RIGHT_HIP :> G(5, 5))
    @@ (POSE_LANDMARKS.RIGHT_KNEE :> G(7, 6)) @@ (POSE_LANDMARKS.RIGHT_ANKLE :> G(7, 8))
    @@ (POSE_LANDMARKS.LEFT_KNEE :> G(8, 6)) @@ (POSE_LANDMARKS.LEFT_ANKLE :> G(7, 8))
GoodPoses == {PoseArray(MinLandmarks, RiderA), PoseArray(MinLandmarks, RiderB)}
\* arrays that are too short or lack one of the joints
BadPoses ==
    { PoseArray(MinLandmarks - 1, RiderA), PoseArray(1, RiderA),
      PoseArray(POSE_LANDMARKS.RIGHT_ANKLE, RiderB) }
    \cup { PoseArray(MinLandmarks, (j :> NullLandmark) @@ RiderA) : j \in RequiredJoints }
Detections ==
    { Detection(FALSE, 0, EmptyLandmarks), Detection(TRUE, 800, EmptyLandmarks) }
    \cup { Detection(TRUE, 800, p) : p \in GoodPoses \cup BadPoses }

(***************************************************************************)
(* The state machine: a client sends a request, POST answers it.           *)
(***************************************************************************)
VARIABLES body, response, console,
          photos, analyzing, analysisProgress, mediaPipeReady, mediaPipeError,
          run, extraction, localStorage, route, timer, alerted,
          inFlight, answers
\* the request handler's variables and those of the upload page
pageVars == <<photos, analyzing, analysisProgress, mediaPipeReady, mediaPipeError,
              run, extraction, localStorage, route, timer, alerted>>
\* the invocations of POST in progress at the same time and the answers sent
concurrentVars == <<inFlight, answers>>
vars == <<body, response, console, photos, analyzing, analysisProgress, mediaPipeReady,
          mediaPipeError, run, extraction, localStorage, route, timer, alerted,
          inFlight, answers>>

NoBody ==
    [contentType |-> "none", parses |-> FALSE, photosIsArray |-> FALSE, photos |-> <<>>,
     angles |-> NoAnalysis, isRealAnalysis |-> FALSE, files |-> 0]
NoResponse == [status |-> 0, kind |-> "none"]
MaxInFlight == 2        \* most invocations of POST in progress at the same time
\* an invocation of POST: how far it has come, the request it was called
\* with, and the response it returned
NoInvocation == [at |-> "free", body |-> NoBody, response |-> NoResponse]

\* no handleAnalyze call is in progress / one is: the photos it iterates
\* over (the state captured by its closure), the index of the photo being
\* processed and the analyzed photos collected so far
NoRun == [at |-> "idle", photos |-> <<>>, index |-> 0, analyzedPhotos |-> <<>>]
\* the promise of processImageForBikeFit is pending
NoExtraction == [settled |-> FALSE, results |-> NoDetection, outcome |-> Thrown(<<>>)]
\* localStorage without an analysisResult item
NoItem == [kind |-> "none"]
LoadingText == "Loading AI libraries..."

Init ==
    /\ body = NoBody
    /\ response = NoResponse
    /\ console = {}
    /\ photos = <<>>
    /\ analyzing = FALSE
    /\ analysisProgress = LoadingText
    /\ mediaPipeReady = FALSE
    /\ mediaPipeError = ""
    /\ run = NoRun
    /\ extraction = NoExtraction
    /\ localStorage = NoItem
    /\ route = "/upload"
    /\ timer = FALSE
    /\ alerted = <<>>
    /\ inFlight = [i \in 1..MaxInFlight |-> NoInvocation]
    /\ answers = {}

\* a request arrives at the idle handler
Request(b) ==
    /\ body = NoBody
    /\ body' = b
    /\ response' = NoResponse
    /\ console' = {}
    /\ UNCHANGED pageVars
    /\ UNCHANGED concurrentVars

\* POST (route.ts 309-462)
POST ==
    /\ body # NoBody
    /\ response = NoResponse
    /\ UNCHANGED body
    /\ UNCHANGED pageVars
    /\ IF ~body.parses
       THEN response' = ServerError
       ELSE IF body.contentType = "json"
       THEN response' = JsonResult(body)
       ELSE IF body.files = 0
       THEN response' = ErrorResponse(400, "No images provided")
       ELSE \E angles \in MockAnalyses : response' = MockResult(angles)
    /\ console' = Warnings(body)
    /\ UNCHANGED concurrentVars

\* the response has been sent; the handler keeps nothing of the request
Done ==
    /\ response # NoResponse
    /\ body' = NoBody
    /\ response' = NoResponse
    /\ console' = {}
    /\ UNCHANGED pageVars
    /\ UNCHANGED concurrentVars

Next ==
    \/ \E b \in Bodies : Request(b)
    \/ POST
    \/ Done

Spec == Init /\ [][Next]_vars

(***************************************************************************)
(* Concurrent invocations of POST.  The handler is an async function: an   *)
(* invocation runs to `await request.json()`, other invocations may run    *)
(* while it waits, and it runs from there to its return without            *)
(* interruption.  route.ts declares no variable outside its functions.     *)
(***************************************************************************)
\* JSON analysis requests: two photos in either order, angles of a single
\* photo, and a body with neither
ConcurrentBodies ==
    { JsonBody(TRUE, <<Photo("6-oclock", SampleSix), Photo("3-oclock", SampleThree)>>,
               NoAnalysis, TRUE),
      JsonBody(TRUE, <<Photo("3-oclock", SampleThree), Photo("6-oclock", SampleSix)>>,
               NoAnalysis, TRUE),
      JsonBody(FALSE, <<>>, SampleSix, TRUE),
      JsonBody(FALSE, <<>>, SampleThree, FALSE),
      JsonBody(FALSE, <<>>, NoAnalysis, FALSE) }

\* POST is called with a request and runs to `await request.json()`
POSTCalled(i, b) ==
    /\ inFlight[i].at = "free"
    /\ inFlight' = [inFlight EXCEPT ![i] = [at |-> "awaiting", body |-> b,
                                            response |-> NoResponse]]
    /\ UNCHANGED <<body, response, console, answers>>
    /\ UNCHANGED pageVars

\* the body kept in a variable shared by all invocations: the one parsed by
\* the first invocation in progress
BodyOf_Shared(i) ==
    IF inFlight[1].at # "free" THEN inFlight[1].body ELSE inFlight[i].body

\* `const body = await request.json()`: the body of the invocation's own request
BodyOf(i) == inFlight[i].body

\* the invocation resumes with the parsed body and returns its response
POSTResumed(i) ==
    /\ inFlight[i].at = "awaiting"
    /\ inFlight' = [inFlight EXCEPT ![i].at = "returned",
                                    ![i].response = JsonResult(BodyOf(i))]
    /\ UNCHANGED <<body, response, console, answers>>
    /\ UNCHANGED pageVars

\* the response reaches the client that sent the request
ResponseSent(i) ==
    /\ inFlight[i].at = "returned"
    /\ answers' = answers \cup {<<inFlight[i].body, inFlight[i].response>>}
    /\ inFlight' = [inFlight EXCEPT ![i] = NoInvocation]
    /\ UNCHANGED <<body, response, console>>
    /\ UNCHANGED pageVars

NextConcurrent ==
    \/ \E i \in 1..MaxInFlight, b \in ConcurrentBodies : POSTCalled(i, b)
    \/ \E i \in 1..MaxInFlight : POSTResumed(i)
    \/ \E i \in 1..MaxInFlight : ResponseSent(i)

SpecConcurrent == Init /\ [][NextConcurrent]_vars

(***************************************************************************)
(* The upload page (src/src/app/upload/page.tsx).  handleAnalyze is an     *)
(* async function: it runs from one await to the next in one step.         *)
(***************************************************************************)
MaxSelected == 2        \* most files of one selection or drop

TenMB == 10 * 1024 * 1024
File(name, type, size) == [name |-> name, type |-> type, size |-> size]
Files ==
    { File("six.jpg", "image/jpeg", TenMB), File("three.png", "image/png", 1024),
      File("notes.pdf", "application/pdf", 1024), File("huge.jpg", "image/jpeg", TenMB + 1) }
\* file.type.startsWith('image/') && file.size <= 10 * 1024 * 1024
IsValidFile(file) == file.type \in {"image/jpeg", "image/png"} /\ file.size <= TenMB
RECURSIVE FileLists(_)
FileLists(n) ==
    IF n = 0 THEN {<<>>}
    ELSE FileLists(n - 1) \cup {Append(fs, f) : fs \in FileLists(n - 1), f \in Files}
Positions == {"6-oclock", "3-oclock"}

PhotoUpload(file, position) == [file |-> file, position |-> position, analysis |-> NoAnalysis]
\* the filter dropped: the new photo is appended to all previous ones
WithoutPosition_KeepAll(prev, position) == prev

\* prev.filter(p => p.position !== position)
RECURSIVE WithoutPosition(_, _)
WithoutPosition(prev, position) ==
    IF prev = <<>> THEN <<>>
    ELSE IF Head(prev).position # position
         THEN <<Head(prev)>> \o WithoutPosition(Tail(prev), position)
         ELSE WithoutPosition(Tail(prev), position)
\* files.filter(valid)[0], or a file that is not valid when there is none
RECURSIVE FirstValid(_)
FirstValid(files) ==
    IF files = <<>> THEN File("", "", TenMB + 1)
    ELSE IF IsValidFile(Head(files)) THEN Head(files) ELSE FirstValid(Tail(files))
HasPosition(ps, position) == \E i \in 1..Len(ps) : ps[i].position = position
\* page.tsx 148-150
hasRequiredPhotos ==
    Len(photos) = 2 /\ HasPosition(photos, "6-oclock") /\ HasPosition(photos, "3-oclock")
Mounted == route = "/upload"

\* the effect run on mount: waitForMediaPipe resolves ...
MediaPipeLoaded ==
    /\ ~mediaPipeReady /\ mediaPipeError = ""
    /\ mediaPipeReady' = TRUE
    /\ analysisProgress' = ""
    /\ UNCHANGED <<body, response, console, photos, analyzing, mediaPipeError, run,
                   extraction, localStorage, route, timer, alerted>>
    /\ UNCHANGED concurrentVars

\* ... or rejects after its timeout
MediaPipeFailed ==
    /\ ~mediaPipeReady /\ mediaPipeError = ""
    /\ mediaPipeError' = "Failed to load AI libraries. Please refresh the page and ensure you have a stable internet connection."
    /\ analysisProgress' = ""
    /\ UNCHANGED <<body, response, console, photos, analyzing, mediaPipeReady, run,
                   extraction, localStorage, route, timer, alerted>>
    /\ UNCHANGED concurrentVars

\* handleFileSelect (page.tsx 40-59), called by the file input (rendered for
\* a position without photo, enabled once MediaPipe is ready) and by a drop
\* on the card (always)
handleFileSelect(files, position) ==
    /\ Mounted
    /\ IF IsValidFile(FirstValid(files))
       THEN photos' = Append(WithoutPosition(photos, position),
                             PhotoUpload(FirstValid(files), position))
       ELSE photos' = photos
    /\ UNCHANGED <<body, response, console, analyzing, analysisProgress, mediaPipeReady,
                   mediaPipeError, run, extraction, localStorage, route, timer, alerted>>
    /\ UNCHANGED concurrentVars

\* removePhoto (page.tsx 63-65); its button exists for a position with a
\* photo and is disabled while analyzing
removePhoto(position) ==
    /\ Mounted
    /\ HasPosition(photos, position)
    /\ ~analyzing
    /\ photos' = WithoutPosition(photos, position)
    /\ UNCHANGED <<body, response, console, analyzing, analysisProgress, mediaPipeReady,
                   mediaPipeError, run, extraction, localStorage, route, timer, alerted>>
    /\ UNCHANGED concurrentVars

\* `Analyzing ${position === '6-oclock' ? '6 o&apos;clock' : '3 o&apos;clock'} position...`
AnalyzingText(position) ==
    IF position = "6-oclock" THEN "Analyzing 6 o&apos;clock position..."
    ELSE "Analyzing 3 o&apos;clock position..."

\* the message chosen in the catch block of handleAnalyze (page.tsx 126-139)
AlertFor(message) ==
    IF Includes(message, "No pose detected")
    THEN <<"No person detected in one of the images. Please ensure you are clearly visible in both side-view positions.">>
    ELSE IF Includes(message, "side-view")
    THEN <<"Please take both photos from the side (90 degree angle) showing your full riding position.">>
    ELSE IF Includes(message, "landmarks") \/ Includes(message, "body parts")
    THEN <<"Could not detect all body parts clearly in one of the photos. Please ensure good lighting and clear view of your riding position.">>
    ELSE IF Includes(message, "MediaPipe")
    THEN <<"AI libraries not ready. Please refresh the page and try again.">>
    ELSE <<"Failed to analyze images. Please try again.">>

\* analyzedPhotos.map(p => ({ position: p.position, analysis: p.analysis }))
RECURSIVE RequestPhotos(_)
RequestPhotos(analyzedPhotos) ==
    IF analyzedPhotos = <<>> THEN <<>>
    ELSE <<Photo(Head(analyzedPhotos).position, Head(analyzedPhotos).analysis)>>
         \o RequestPhotos(Tail(analyzedPhotos))
\* the body of the fetch to /api/analyze (page.tsx 98-110)
FetchBody(analyzedPhotos) == JsonBody(TRUE, RequestPhotos(analyzedPhotos), NoAnalysis, TRUE)
\* response.ok
ResponseOk(r) == 200 <= r.status /\ r.status <= 299
\* response.json(): the report without the HTTP status
ResultOf(r) == [f \in (DOMAIN r) \ {"status"} |-> r[f]]

\* the Analyze button with the analyzing flag left out of its disabled attribute
AnalyzeDisabled_IgnoringRun == ~hasRequiredPhotos \/ ~mediaPipeReady

\* disabled={!hasRequiredPhotos || analyzing || !mediaPipeReady} (page.tsx 362)
AnalyzeDisabled == ~hasRequiredPhotos \/ analyzing \/ ~mediaPipeReady

\* handleAnalyze up to its first await (page.tsx 71-82), called by a click
\* on the Analyze button
handleAnalyze ==
    /\ Mounted
    /\ ~AnalyzeDisabled
    /\ IF Len(photos) < 2 \/ ~mediaPipeReady
       THEN UNCHANGED <<analyzing, analysisProgress, run, alerted>>
       ELSE /\ analyzing' = TRUE
            /\ analysisProgress' = AnalyzingText(photos[1].position)
            /\ run' = [at |-> "extract", photos |-> photos, index |-> 1, analyzedPhotos |-> <<>>]
            /\ alerted' = <<>>
    /\ UNCHANGED <<body, response, console, photos, mediaPipeReady, mediaPipeError,
                   extraction, localStorage, route, timer>>
    /\ UNCHANGED concurrentVars

\* the image and MediaPipe answer: the promise of processImageForBikeFit
\* settles (part_005 474-567)
PromiseSettles(detection) ==
    /\ run.at = "extract"
    /\ ~extraction.settled
    /\ UNCHANGED <<body, response, console, photos, analyzing, analysisProgress,
                   mediaPipeReady, mediaPipeError, run, localStorage, route, timer, alerted>>
    /\ extraction' =
         [settled |-> TRUE, results |-> detection,
          outcome |-> processImageForBikeFit(detection, run.photos[run.index].position)]
    /\ UNCHANGED concurrentVars

\* the rejection of processImageForBikeFit not noticed by the loop
ExtractionFailed_Ignored(e) == FALSE

\* the catch inside the loop of handleAnalyze (page.tsx 90-92)
ExtractionFailed(e) == ~e.outcome.ok

\* handleAnalyze after `await processImageForBikeFit` (page.tsx 84-110):
\* the next photo, the fetch after the last photo, or the catch block
AfterExtraction ==
    /\ run.at = "extract"
    /\ extraction.settled
    /\ extraction' = NoExtraction
    /\ UNCHANGED <<response, console, photos, mediaPipeReady, mediaPipeError,
                   localStorage, route, timer>>
    /\ IF ExtractionFailed(extraction)
       THEN /\ alerted' = AlertFor(<<"Failed to analyze ", run.photos[run.index].position,
                                     " photo: ">> \o extraction.outcome.message)
            /\ analyzing' = FALSE
            /\ analysisProgress' = ""
            /\ run' = NoRun
            /\ UNCHANGED body
       ELSE LET analyzedPhotos ==
                    Append(run.analyzedPhotos,
                           [run.photos[run.index] EXCEPT !.analysis = extraction.outcome.analysis])
            IN  /\ IF run.index < Len(run.photos)
                   THEN /\ run' = [run EXCEPT !.index = run.index + 1,
                                              !.analyzedPhotos = analyzedPhotos]
                        /\ analysisProgress' = AnalyzingText(run.photos[run.index + 1].position)
                        /\ UNCHANGED body
                   ELSE /\ run' = [run EXCEPT !.at = "fetch", !.analyzedPhotos = analyzedPhotos]
                        /\ analysisProgress' = "Calculating comprehensive bike fit recommendations..."
                        /\ body' = FetchBody(analyzedPhotos)
                /\ UNCHANGED <<analyzing, alerted>>
    /\ UNCHANGED concurrentVars

\* fetch rejects (the network fails): catch and finally
FetchFails ==
    /\ run.at = "fetch"
    /\ alerted' = AlertFor(<<"Failed to fetch">>)
    /\ analyzing' = FALSE
    /\ analysisProgress' = ""
    /\ run' = NoRun
    /\ body' = NoBody /\ response' = NoResponse /\ console' = {}
    /\ UNCHANGED <<photos, mediaPipeReady, mediaPipeError, extraction, localStorage,
                   route, timer>>
    /\ UNCHANGED concurrentVars

\* handleAnalyze after `await fetch` (page.tsx 112-145): the result is
\* stored and the navigation scheduled, or the catch block alerts; finally
\* clears the analyzing flag and the progress text
AfterFetch ==
    /\ run.at = "fetch"
    /\ response # NoResponse
    /\ UNCHANGED <<photos, mediaPipeReady, mediaPipeError, extraction, route>>
    /\ IF ResponseOk(response)
       THEN /\ localStorage' = ResultOf(response)
            /\ timer' = TRUE
            /\ UNCHANGED alerted
       ELSE /\ alerted' = AlertFor(<<"Failed to process analysis results">>)
            /\ UNCHANGED <<localStorage, timer>>
    /\ analyzing' = FALSE
    /\ analysisProgress' = ""
    /\ run' = NoRun
    /\ body' = NoBody /\ response' = NoResponse /\ console' = {}
    /\ UNCHANGED concurrentVars

\* the callback of setTimeout(..., 500): router.push('/results')
RouterPush ==
    /\ timer
    /\ timer' = FALSE
    /\ route' = "/results"
    /\ UNCHANGED <<body, response, console, photos, analyzing, analysisProgress,
                   mediaPipeReady, mediaPipeError, run, extraction, localStorage, alerted>>
    /\ UNCHANGED concurrentVars

\* the back button: router.push('/onboarding') (page.tsx 158)
BackToOnboarding ==
    /\ Mounted
    /\ route' = "/onboarding"
    /\ UNCHANGED <<body, response, console, photos, analyzing, analysisProgress,
                   mediaPipeReady, mediaPipeError, run, extraction, localStorage, timer,
                   alerted>>
    /\ UNCHANGED concurrentVars

NextUpload ==
    \/ MediaPipeLoaded
    \/ MediaPipeFailed
    \/ \E files \in FileLists(MaxSelected), position \in Positions :
          handleFileSelect(files, position)
    \/ \E position \in Positions : removePhoto(position)
    \/ handleAnalyze
    \/ \E detection \in Detections : PromiseSettles(detection)
    \/ AfterExtraction
    \/ POST
    \/ FetchFails
    \/ AfterFetch
    \/ RouterPush
    \/ BackToOnboarding

SpecUpload == Init /\ [][NextUpload]_vars

\* a request is waiting for the handler: the enabling condition of POST
RequestWaiting == body # NoBody /\ response = NoResponse

\* the awaited promises settle and their continuations run: the image loads
\* or fails and MediaPipe reports its results, the event loop resumes
\* handleAnalyze after each await, and no request waits for the handler
\* forever (weak fairness of POST, which ends the waiting when it runs)
RunProgress ==
    /\ WF_vars(\E detection \in Detections : PromiseSettles(detection))
    /\ WF_vars(AfterExtraction)
    /\ []<>~RequestWaiting
    /\ WF_vars(AfterFetch)

SpecUploadFair == Init /\ [][NextUpload]_vars /\ RunProgress

(***************************************************************************)
(* processImageForBikeFit called on its own, with poses whose joints lie   *)
(* in every tabulated direction from each other, or on the same point      *)
(***************************************************************************)
\* steps between two joints, in tenths of the image
Steps == {0 - 2, 0 - 1, 0, 1, 2}
Moved(l, dx, dy) == Landmark(l.x + dx * (Q \div 10), l.y + dy * (Q \div 10))
Hip == G(5, 5)
\* the leg in every shape, the arm in every shape, the torso in every
\* direction with the arm held as RiderA holds it
LegPoses ==
    { (POSE_LANDMARKS.RIGHT_KNEE :> Moved(Hip, kx, ky))
      @@ (POSE_LANDMARKS.RIGHT_ANKLE :> Moved(Moved(Hip, kx, ky), ax, ay)) @@ RiderA :
        kx \in Steps, ky \in Steps, ax \in Steps, ay \in Steps }
ArmPoses ==
    { (POSE_LANDMARKS.RIGHT_ELBOW :> Moved(G(6, 4), ex, ey))
      @@ (POSE_LANDMARKS.RIGHT_WRIST :> Moved(Moved(G(6, 4), ex, ey), wx, wy)) @@ RiderA :
        ex \in Steps, ey \in Steps, wx \in Steps, wy \in Steps }
TorsoPoses ==
    { (POSE_LANDMARKS.RIGHT_SHOULDER :> Moved(Hip, sx, sy))
      @@ (POSE_LANDMARKS.RIGHT_ELBOW :> Moved(Hip, sx + 1, sy + 1))
      @@ (POSE_LANDMARKS.RIGHT_WRIST :> Moved(Hip, sx + 3, sy + 2)) @@ RiderA :
        sx \in Steps, sy \in Steps }
AnglePoses == {PoseArray(MinLandmarks, joints) : joints \in LegPoses \cup ArmPoses \cup TorsoPoses}

\* processImageForBikeFit(file, position) resolves or rejects
ImageProcessed(pose, position) ==
    /\ run = NoRun
    /\ ~extraction.settled
    /\ extraction' =
         [settled |-> TRUE, results |-> Detection(TRUE, 800, pose),
          outcome |-> processImageForBikeFit(Detection(TRUE, 800, pose), position)]
    /\ UNCHANGED <<body, response, console, photos, analyzing, analysisProgress,
                   mediaPipeReady, mediaPipeError, run, localStorage, route, timer, alerted>>
    /\ UNCHANGED concurrentVars

\* the caller has taken the outcome
OutcomeTaken ==
    /\ run = NoRun
    /\ extraction.settled
    /\ extraction' = NoExtraction
    /\ UNCHANGED <<body, response, console, photos, analyzing, analysisProgress,
                   mediaPipeReady, mediaPipeError, run, localStorage, route, timer, alerted>>
    /\ UNCHANGED concurrentVars

NextAngles ==
    \/ \E pose \in AnglePoses, position \in Positions : ImageProcessed(pose, position)
    \/ OutcomeTaken

SpecAngles == Init /\ [][NextAngles]_vars

(***************************************************************************)
(* Properties                                                              *)
(***************************************************************************)
\* the feature records of the request being handled, selected by tag
ReqSix == FindPhoto(body.photos, "6-oclock").analysis
ReqThree == FindPhoto(body.photos, "3-oclock").analysis
FiniteAngles(a) == IsNum(a.kneeAngle) /\ IsNum(a.torsoAngle) /\ IsNum(a.elbowAngle)
Enhanced == response.kind = "enhanced"
Legacy == response.kind = "legacy"
HasType(recs, type) == \E i \in 1..Len(recs) : recs[i].type = type
OfType(recs, type) == {i \in 1..Len(recs) : recs[i].type = type}

\* C1: for finite input angles the overallScore of a two-photo report and of
\* a legacy report is a whole number between 0 and 100
C1_ScoreInRange ==
    /\ (Enhanced /\ FiniteAngles(ReqSix) /\ FiniteAngles(ReqThree)) =>
          /\ IsNum(response.overallScore)
          /\ response.overallScore % Q = 0
          /\ 0 <= response.overallScore /\ response.overallScore <= Deg(100)
    /\ (Legacy /\ FiniteAngles(body.angles)) =>
          /\ IsNum(response.overallScore)
          /\ response.overallScore % Q = 0
          /\ 0 <= response.overallScore /\ response.overallScore <= Deg(100)

\* a two-photo report whose summed deductions exceed 100 and leave a fraction
C1_Witness ==
    /\ Enhanced /\ FiniteAngles(ReqSix) /\ FiniteAngles(ReqThree)
    /\ EnhancedRawScore(ReqSix, ReqThree, response.kopsAnalysis,
                        response.posturalConsistency) < 0
    /\ EnhancedRawScore(ReqSix, ReqThree, response.kopsAnalysis,
                        response.posturalConsistency) % Q # 0
    /\ response.overallScore = 0

\* C2: the recommendations of a report are ordered by priority descending,
\* and recommendations of equal priority are in rule-evaluation order
RuleIndex(type) ==
    CASE type = "saddle_height" -> 1 [] type = "saddle_fore_aft" -> 2
      [] type = "handlebar_height" -> 3 [] type = "stem_length" -> 4
      [] type = "core_stability" -> 5
C2_SortedStable ==
    Enhanced =>
        \A i, j \in 1..Len(response.recommendations) :
            i < j =>
              LET a == response.recommendations[i]
                  b == response.recommendations[j]
              IN  /\ priorityOrder(a.priority) >= priorityOrder(b.priority)
                  /\ a.priority = b.priority => RuleIndex(a.type) < RuleIndex(b.type)

\* a report carrying all five recommendations, three of them of priority medium
C2_Witness ==
    /\ Enhanced
    /\ Len(response.recommendations) = 5
    /\ Cardinality({i \in 1..5 : response.recommendations[i].priority = "medium"}) = 3

\* C3: no saddle_height recommendation for a six o'clock knee angle in
\* [25,35]; exactly one otherwise, of priority high, recommending 30, with
\* the knee angle as current value, raising below 25 and lowering above 35
C3_SaddleHeight ==
    (Enhanced /\ IsNum(ReqSix.kneeAngle)) =>
        LET k == ReqSix.kneeAngle
            recs == response.recommendations
            hits == OfType(recs, "saddle_height")
        IN  IF Deg(25) <= k /\ k <= Deg(35)
            THEN hits = {}
            ELSE /\ Cardinality(hits) = 1
                 /\ \A i \in hits :
                      /\ recs[i].priority = "high"
                      /\ recs[i].recommendedValue = Deg(30)
                      /\ recs[i].currentValue = k
                      /\ k < Deg(25) => recs[i].adjustment = "Raise saddle by 5-15mm"
                      /\ k > Deg(35) => recs[i].adjustment = "Lower saddle by 5-15mm"

\* a report for a knee angle just above the band that lowers the saddle
C3_Witness ==
    /\ Enhanced
    /\ ReqSix.kneeAngle = Deg(35) + Tenths(1)
    /\ \E i \in 1..Len(response.recommendations) :
          /\ response.recommendations[i].type = "saddle_height"
          /\ response.recommendations[i].adjustment = "Lower saddle by 5-15mm"

\* C4: the three o'clock knee angle never changes the recommendation list,
\* and it lowers the unrounded score (where the other terms leave a number)
\* by exactly 10 when it is below 60 or above 100 and by nothing otherwise
C4_ThreeOClockKnee ==
    Enhanced =>
        LET k == ReqThree.kneeAngle
            mid == [ReqThree EXCEPT !.kneeAngle = Deg(80)]
            raw(three) == EnhancedRawScore(ReqSix, three, response.kopsAnalysis,
                                           response.posturalConsistency)
        IN  /\ \A other \in KneeThreeAngles \cup {Deg(80)} :
                 EnhancedResult(ReqSix, [ReqThree EXCEPT !.kneeAngle = other]).recommendations
                     = response.recommendations
            /\ IsNum(raw(mid)) =>
                 raw(ReqThree) = raw(mid) - (IF Lt(k, Deg(60)) \/ Gt(k, Deg(100)) THEN Deg(10) ELSE 0)
            /\ response.overallScore = ClampScore(raw(ReqThree))

\* a report for a three o'clock knee angle of 150 with recommendations, the
\* warning logged and the score 10 below that of an 80 degree knee
C4_Witness ==
    /\ Enhanced
    /\ ReqThree.kneeAngle = Deg(150)
    /\ response.recommendations # <<>>
    /\ "Unexpected 3 o'clock knee angle" \in console
    /\ response.overallScore > 0
    /\ EnhancedResult(ReqSix, [ReqThree EXCEPT !.kneeAngle = Deg(80)]).overallScore
           = response.overallScore + Deg(10)

\* the KOPS result of a report that was computed from the landmarks
KOPSComputed == Enhanced /\ ~KOPSFallbackTaken(ReqThree)
ReqKnee == At(ReqThree.landmarks, RIGHT_KNEE)
ReqAnkle == At(ReqThree.landmarks, RIGHT_ANKLE)

\* C5 as claimed: horizontalOffset = (knee.x - ankle.x) * imageWidth * 0.05
\* for the supplied image width, isOptimal iff |horizontalOffset| <= 2, and
\* offset 0 and optimal when knee.x = ankle.x
C5_KOPSAsClaimed ==
    KOPSComputed =>
        LET kops == response.kopsAnalysis
            w == ReqThree.imageWidth
        IN  /\ IsNum(w) => kops.horizontalOffset = ((ReqKnee.x - ReqAnkle.x) * w) \div 20
            /\ kops.isOptimal <=> MathAbs(kops.horizontalOffset) <= Deg(2)
            /\ ReqKnee.x = ReqAnkle.x => kops.horizontalOffset = 0 /\ kops.isOptimal

\* C5: horizontalOffset = (knee.x - ankle.x) * w * 0.05 where w is the
\* supplied image width when it is not 0 and 640 when it is 0 or missing;
\* isOptimal iff |horizontalOffset| <= 2; offset 0 and optimal when
\* knee.x = ankle.x, for any image width
C5_KOPSFormula ==
    KOPSComputed =>
        LET kops == response.kopsAnalysis
            w == ReqThree.imageWidth
            used == IF IsNum(w) /\ w # 0 THEN w ELSE 640
        IN  /\ kops.horizontalOffset = ((ReqKnee.x - ReqAnkle.x) * used) \div 20
            /\ kops.isOptimal <=> MathAbs(kops.horizontalOffset) <= Deg(2)
            /\ ReqKnee.x = ReqAnkle.x => kops.horizontalOffset = 0 /\ kops.isOptimal

\* a KOPS result computed with a supplied width of 200: offset 1 cm, optimal
C5_Witness ==
    /\ KOPSComputed
    /\ ReqThree.imageWidth = 200
    /\ ReqKnee.x - ReqAnkle.x = 10 * (Q \div 100)
    /\ response.kopsAnalysis.horizontalOffset = Deg(1)
    /\ response.kopsAnalysis.isOptimal

\* a well-formed two-photo request whose two analysis records are present
TwoPhotoRequest ==
    /\ body.contentType = "json" /\ body.parses
    /\ body.photosIsArray /\ Len(body.photos) = 2
    /\ FindPhoto(body.photos, "6-oclock").found
    /\ FindPhoto(body.photos, "3-oclock").found
    /\ ReqSix.present /\ ReqThree.present
Answered == response # NoResponse

\* C6: when the knee or ankle landmark of the three o'clock photo (or its
\* whole landmark array) is missing, the request is answered with a report
\* whose KOPS result has offset 0 and is optimal, without saddle_fore_aft
\* recommendation and without KOPS deduction, and whose other parts equal
\* those of the report for the same photos with an optimal KOPS result
C6_KOPSFallback ==
    (TwoPhotoRequest /\ Answered /\ calculateKOPSThrows(ReqThree.landmarks)) =>
        /\ Enhanced
        /\ response.kopsAnalysis.horizontalOffset = 0
        /\ response.kopsAnalysis.isOptimal
        /\ ~HasType(response.recommendations, "saddle_fore_aft")
        /\ KOPSDeduction(response.kopsAnalysis) = 0
        /\ response.sixOClockAnalysis = ReqSix
        /\ response.threeOClockAnalysis = ReqThree
        /\ \A x \in KneeXs, w \in ImageWidths :
             LET ref == EnhancedResult(ReqSix, [ReqThree EXCEPT !.landmarks = FullLandmarks(x),
                                                                !.imageWidth = w])
             IN  ref.kopsAnalysis.isOptimal =>
                   /\ response.recommendations = ref.recommendations
                   /\ response.overallScore = ref.overallScore
                   /\ response.posturalConsistency = ref.posturalConsistency
                   /\ response.summary = ref.summary

\* a report for a three o'clock array whose ankle entry is missing, with the
\* fallback logged and other recommendations present
C6_Witness ==
    /\ TwoPhotoRequest /\ Enhanced
    /\ At(ReqThree.landmarks, RIGHT_KNEE).present
    /\ ~At(ReqThree.landmarks, RIGHT_ANKLE).present
    /\ "KOPS calculation failed" \in console
    /\ response.kopsAnalysis = NeutralKOPS
    /\ Len(response.recommendations) >= 2

\* C7: a saddle_fore_aft recommendation is emitted exactly when the KOPS
\* offset is outside [-2,2]; at most one; priority medium, the offset as
\* current value, moving the saddle backward above 2 and forward below -2
C7_SaddleForeAft ==
    Enhanced =>
        LET off == response.kopsAnalysis.horizontalOffset
            recs == response.recommendations
            hits == OfType(recs, "saddle_fore_aft")
        IN  /\ hits # {} <=> (off > Deg(2) \/ off < 0 - Deg(2))
            /\ Cardinality(hits) <= 1
            /\ \A i \in hits :
                 /\ recs[i].priority = "medium"
                 /\ recs[i].currentValue = off
                 /\ off > Deg(2) => recs[i].adjustment = "Move saddle backward 5-10mm"
                 /\ off < 0 - Deg(2) => recs[i].adjustment = "Move saddle forward 5-10mm"

\* a report that moves the saddle forward for a knee behind the axle
C7_Witness ==
    /\ Enhanced
    /\ response.kopsAnalysis.horizontalOffset < 0 - Deg(2)
    /\ \E i \in 1..Len(response.recommendations) :
          /\ response.recommendations[i].type = "saddle_fore_aft"
          /\ response.recommendations[i].adjustment = "Move saddle forward 5-10mm"

\* C8: the consistency analysis of two feature records always yields a
\* result, with isConsistent true exactly when |torso6 - torso3| <= 10 and
\* |elbow6 - elbow3| <= 15, and exactly when the issues list is empty
C8_Consistency ==
    /\ (TwoPhotoRequest /\ Answered) => Enhanced
    /\ (Enhanced /\ FiniteAngles(ReqSix) /\ FiniteAngles(ReqThree)) =>
          LET c == response.posturalConsistency
              dt == MathAbs(ReqSix.torsoAngle - ReqThree.torsoAngle)
              de == MathAbs(ReqSix.elbowAngle - ReqThree.elbowAngle)
          IN  /\ c.isConsistent <=> (dt <= Deg(10) /\ de <= Deg(15))
              /\ c.isConsistent <=> (c.issues = <<>>)
              /\ c.torsoAngleDifference = dt
              /\ c.elbowAngleDifference = de

\* a consistent result with the torso difference exactly 10 and the elbow
\* difference exactly 15
C8_Witness ==
    /\ Enhanced /\ FiniteAngles(ReqSix) /\ FiniteAngles(ReqThree)
    /\ response.posturalConsistency.torsoAngleDifference = Deg(10)
    /\ response.posturalConsistency.elbowAngleDifference = Deg(15)
    /\ response.posturalConsistency.isConsistent

\* C9: exactly one core_stability recommendation when the consistency
\* result is inconsistent and none when it is consistent; it has priority
\* low and, both differences being numbers, the larger of the two as
\* current value
C9_CoreStability ==
    Enhanced =>
        LET c == response.posturalConsistency
            recs == response.recommendations
            hits == OfType(recs, "core_stability")
        IN  IF c.isConsistent
            THEN hits = {}
            ELSE /\ Cardinality(hits) = 1
                 /\ \A i \in hits :
                      /\ recs[i].priority = "low"
                      /\ (IsNum(c.torsoAngleDifference) /\ IsNum(c.elbowAngleDifference)) =>
                           recs[i].currentValue =
                             (IF c.torsoAngleDifference >= c.elbowAngleDifference
                              THEN c.torsoAngleDifference ELSE c.elbowAngleDifference)

\* a torso difference of 15 with a smaller elbow difference gives one
\* core_stability recommendation with current value 15
C9_Witness ==
    /\ Enhanced
    /\ response.posturalConsistency.torsoAngleDifference = Deg(15)
    /\ response.posturalConsistency.elbowAngleDifference < Deg(15)
    /\ \E i \in 1..Len(response.recommendations) :
          /\ response.recommendations[i].type = "core_stability"
          /\ response.recommendations[i].priority = "low"
          /\ response.recommendations[i].currentValue = Deg(15)

\* C10: the six o'clock knee angle k lowers the unrounded score by 0 when k
\* is in [25,35] and otherwise by twice its distance to the nearer band edge
\* (where the other terms of the score leave a number)
C10_KneeDeduction ==
    (Enhanced /\ IsNum(ReqSix.kneeAngle)) =>
        LET k == ReqSix.kneeAngle
            expected == IF Deg(25) <= k /\ k <= Deg(35) THEN 0
                        ELSE IF k < Deg(25) THEN 2 * (Deg(25) - k)
                        ELSE 2 * (k - Deg(35))
            base == EnhancedRawScore([ReqSix EXCEPT !.kneeAngle = Deg(30)], ReqThree,
                                     response.kopsAnalysis, response.posturalConsistency)
        IN  IsNum(base) =>
              /\ EnhancedRawScore(ReqSix, ReqThree, response.kopsAnalysis,
                                  response.posturalConsistency) = base - expected
              /\ response.overallScore = ClampScore(base - expected)

\* a report for k = 20 whose score is exactly 10 below that for k = 30
C10_Witness ==
    /\ Enhanced
    /\ ReqSix.kneeAngle = Deg(20)
    /\ response.overallScore > 0
    /\ EnhancedResult([ReqSix EXCEPT !.kneeAngle = Deg(30)], ReqThree).overallScore
           = response.overallScore + Deg(10)

\* the mean of two finite angles and the distance of a value to a centre
MeanOf(a, b) == (a + b) \div 2
Dist(a, b) == IF a >= b THEN a - b ELSE b - a
ReqMeanTorso == MeanOf(ReqSix.torsoAngle, ReqThree.torsoAngle)
ReqMeanElbow == MeanOf(ReqSix.elbowAngle, ReqThree.elbowAngle)
FiniteRequest == Enhanced /\ FiniteAngles(ReqSix) /\ FiniteAngles(ReqThree)
ReqRawScore ==
    EnhancedRawScore(ReqSix, ReqThree, response.kopsAnalysis, response.posturalConsistency)
\* the unrounded score of a rider with the same knees, KOPS and consistency
\* result whose torso is at 45 and whose elbow is at 157.5 in both photos
CentredPostureScore ==
    EnhancedRawScore([ReqSix EXCEPT !.torsoAngle = Deg(45), !.elbowAngle = Tenths(1575)],
                     [ReqThree EXCEPT !.torsoAngle = Deg(45), !.elbowAngle = Tenths(1575)],
                     response.kopsAnalysis, response.posturalConsistency)

\* C11 as claimed: the score is lowered by |meanTorso - 45| and by
\* |meanElbow - 157.5| * 0.5 for every value of the two means
C11_PostureTermsAsClaimed ==
    FiniteRequest =>
        ReqRawScore = CentredPostureScore - Dist(ReqMeanTorso, Deg(45))
                                          - Dist(ReqMeanElbow, Tenths(1575)) \div 2

\* C11: the score is lowered by |meanTorso - 45| only when the mean torso
\* angle is below 35 or above 55, and by |meanElbow - 157.5| * 0.5 only when
\* the mean elbow angle is below 150 or above 165; inside the bands,
\* boundaries included, the term is 0
C11_PostureTerms ==
    FiniteRequest =>
        LET torsoTerm == IF ReqMeanTorso < Deg(35) \/ ReqMeanTorso > Deg(55)
                         THEN Dist(ReqMeanTorso, Deg(45)) ELSE 0
            elbowTerm == IF ReqMeanElbow < Deg(150) \/ ReqMeanElbow > Deg(165)
                         THEN Dist(ReqMeanElbow, Tenths(1575)) \div 2 ELSE 0
        IN  /\ ReqRawScore = CentredPostureScore - torsoTerm - elbowTerm
            /\ response.overallScore = ClampScore(CentredPostureScore - torsoTerm - elbowTerm)

\* a rider with mean torso 60 and mean elbow 145: 15 and 6.25 are deducted
C11_Witness ==
    /\ FiniteRequest
    /\ ReqMeanTorso = Deg(60) /\ ReqMeanElbow = Deg(145)
    /\ ReqRawScore = CentredPostureScore - Deg(15) - (Deg(6) + Deg(1) \div 4)

\* the unrounded score of the same rider with an optimal KOPS result and a
\* consistent posture
NeutralTermsScore ==
    EnhancedRawScore(ReqSix, ReqThree, NeutralKOPS,
                     [response.posturalConsistency EXCEPT !.isConsistent = TRUE])

\* C12: the score is lowered by |horizontalOffset| * 2 exactly when the KOPS
\* result is not optimal and by (torso difference + elbow difference) * 0.5
\* exactly when the posture is inconsistent
C12_KOPSAndConsistencyTerms ==
    FiniteRequest =>
        LET k == response.kopsAnalysis
            c == response.posturalConsistency
            kopsTerm == IF ~k.isOptimal THEN 2 * Dist(k.horizontalOffset, 0) ELSE 0
            consistencyTerm == IF ~c.isConsistent
                               THEN (c.torsoAngleDifference + c.elbowAngleDifference) \div 2
                               ELSE 0
        IN  /\ ReqRawScore = NeutralTermsScore - kopsTerm - consistencyTerm
            /\ response.overallScore = ClampScore(NeutralTermsScore - kopsTerm - consistencyTerm)
            /\ (k.isOptimal /\ c.isConsistent) => ReqRawScore = NeutralTermsScore

\* a knee 4 cm ahead of the pedal and elbows 20 degrees apart: 8 and half
\* of the summed differences are deducted
C12_Witness ==
    /\ FiniteRequest
    /\ ~response.kopsAnalysis.isOptimal
    /\ response.kopsAnalysis.horizontalOffset = Deg(4)
    /\ ~response.posturalConsistency.isConsistent
    /\ response.posturalConsistency.elbowAngleDifference = Deg(20)
    /\ ReqRawScore = NeutralTermsScore - Deg(8)
                       - (response.posturalConsistency.torsoAngleDifference + Deg(20)) \div 2

\* C13: no handlebar_height recommendation for a mean torso angle in
\* [35,55]; exactly one otherwise, of priority medium, recommending 45, with
\* the mean as current value, raising below 35 and lowering above 55
C13_HandlebarHeight ==
    (Enhanced /\ IsNum(ReqSix.torsoAngle) /\ IsNum(ReqThree.torsoAngle)) =>
        LET recs == response.recommendations
            hits == OfType(recs, "handlebar_height")
        IN  IF Deg(35) <= ReqMeanTorso /\ ReqMeanTorso <= Deg(55)
            THEN hits = {}
            ELSE /\ Cardinality(hits) = 1
                 /\ \A i \in hits :
                      /\ recs[i].priority = "medium"
                      /\ recs[i].recommendedValue = Deg(45)
                      /\ recs[i].currentValue = ReqMeanTorso
                      /\ ReqMeanTorso < Deg(35) =>
                           recs[i].adjustment = "Raise handlebars by 10-20mm or use shorter stem"
                      /\ ReqMeanTorso > Deg(55) =>
                           recs[i].adjustment = "Lower handlebars by 10-20mm"

\* torso angles 30 and 30 give one recommendation to raise the bars with
\* current value 30
C13_Witness ==
    /\ Enhanced
    /\ ReqSix.torsoAngle = Deg(30) /\ ReqThree.torsoAngle = Deg(30)
    /\ \E i \in 1..Len(response.recommendations) :
          /\ response.recommendations[i].type = "handlebar_height"
          /\ response.recommendations[i].currentValue = Deg(30)
          /\ response.recommendations[i].adjustment
               = "Raise handlebars by 10-20mm or use shorter stem"

TopTierTexts ==
    { "Excellent bike fit! Your two-position analysis shows consistent, optimal positioning.",
      "Good bike fit! Consider upgrading to two-photo analysis for comprehensive recommendations. (AI Analysis)",
      "Great bike fit! Minor adjustments could optimize your position further." }
MiddleTierTexts ==
    { "Good bike fit foundation. The comprehensive analysis identified specific areas for improvement.",
      "Decent foundation. Upgrade to two-photo analysis for detailed KOPS and consistency evaluation. (AI Analysis)",
      "Good foundation with room for improvement." }
BottomTierTexts ==
    { "Comprehensive analysis reveals significant opportunities to optimize your bike fit for comfort and performance.",
      "Single-photo analysis shows areas for improvement. Two-photo analysis recommended for complete assessment. (AI Analysis)",
      "Significant adjustments needed for optimal comfort and performance." }

\* C15: in a two-photo and in a single-photo report the summary is a top
\* tier text exactly for scores of 80 and more, a middle tier text exactly
\* for scores from 60 to 79, and a bottom tier text exactly for scores
\* below 60
C15_SummaryTiers ==
    ((Enhanced \/ Legacy) /\ IsNum(response.overallScore)) =>
        LET score == response.overallScore
        IN  /\ response.summary \in TopTierTexts <=> score >= Deg(80)
            /\ response.summary \in MiddleTierTexts <=> (Deg(60) <= score /\ score < Deg(80))
            /\ response.summary \in BottomTierTexts <=> score < Deg(60)

\* a two-photo report whose unrounded score 79.5 rounds to 80 and gets the
\* top tier text
C15_Witness ==
    /\ FiniteRequest
    /\ ReqRawScore = Tenths(795)
    /\ response.overallScore = Deg(80)
    /\ response.summary \in TopTierTexts

\* the request carries a photo array that is not one six o'clock and one
\* three o'clock photo
BadPhotoSet ==
    /\ body.contentType = "json" /\ body.parses
    /\ body.photosIsArray
    /\ \/ Len(body.photos) # 2
       \/ ~FindPhoto(body.photos, "6-oclock").found
       \/ ~FindPhoto(body.photos, "3-oclock").found

\* C16 as claimed: a photo set that is not exactly one six o'clock and one
\* three o'clock photo is answered with an error, whatever else the body
\* carries
C16_BadPhotoSetRejectedAsClaimed ==
    (BadPhotoSet /\ Answered) => response.kind = "error"

\* the request carries two tagged photos and one of them lacks its analysis
\* record or one of its three angle fields
AbsentInput ==
    /\ body.contentType = "json" /\ body.parses
    /\ body.photosIsArray /\ Len(body.photos) = 2
    /\ FindPhoto(body.photos, "6-oclock").found
    /\ FindPhoto(body.photos, "3-oclock").found
    /\ \/ ~ReqSix.present \/ ~ReqThree.present
       \/ ~FiniteAngles(ReqSix) \/ ~FiniteAngles(ReqThree)

\* C18 as claimed: a JSON request is answered with an error or with a report
\* that has a numeric score and complete feature records; absent analysis
\* records or angle fields give an error
C18_ErrorOrCompleteReportAsClaimed ==
    /\ (AbsentInput /\ Answered) => response.kind = "error"
    /\ Enhanced =>
          /\ IsNum(response.overallScore)
          /\ FiniteAngles(response.sixOClockAnalysis)
          /\ FiniteAngles(response.threeOClockAnalysis)
    /\ Legacy => IsNum(response.overallScore) /\ FiniteAngles(response.angles)

\* the request is one of the riders of scenario A
ScenarioARequest == body \in ScenarioABodies

\* C20: the rider of scenario A (knee 28 and 80, torso 42 and 44, elbow 155
\* and 158, KOPS offset 0.5) gets a report with an empty recommendation
\* list, a consistent posture and a score between 98 and 100
C20_ScenarioA ==
    (ScenarioARequest /\ Answered) =>
        /\ Enhanced
        /\ response.kopsAnalysis.horizontalOffset = Deg(1) \div 2
        /\ response.recommendations = <<>>
        /\ response.posturalConsistency.isConsistent
        /\ Deg(98) <= response.overallScore /\ response.overallScore <= Deg(100)

\* the report of a scenario A rider: offset 0.5, no recommendation, score 100
C20_Witness ==
    /\ ScenarioARequest /\ Enhanced
    /\ response.kopsAnalysis.horizontalOffset = Deg(1) \div 2
    /\ response.recommendations = <<>>
    /\ response.overallScore = Deg(100)

\* the landmark array handed to analyzeBikeFit by the settled extraction and
\* the pedal position of the photo being processed
ExtractedFrom == extraction.results.poseLandmarks
AnalyzeBikeFitCalled ==
    /\ extraction.settled
    /\ extraction.results.loaded
    /\ Cardinality(DOMAIN ExtractedFrom) > 0
JointAbsent(landmarks, j) == j \notin DOMAIN landmarks \/ ~landmarks[j].present

\* C17: analyzeBikeFit fails, returning no feature record, when the array has
\* fewer than 33 entries or one of the joints 12, 14, 16, 24, 26, 28 is
\* absent; otherwise it returns a feature record of that array tagged with
\* the pedal position it was given
C17_MissingLandmarks ==
    AnalyzeBikeFitCalled =>
        IF \/ Cardinality(DOMAIN ExtractedFrom) < 33
           \/ \E j \in {12, 14, 16, 24, 26, 28} : JointAbsent(ExtractedFrom, j)
        THEN /\ ~extraction.outcome.ok
             /\ extraction.outcome.analysis = NoAnalysis
             /\ \/ Includes(extraction.outcome.message, "landmarks")
                \/ Includes(extraction.outcome.message, "body parts")
        ELSE /\ extraction.outcome.ok
             /\ extraction.outcome.analysis.present
             /\ extraction.outcome.analysis.pedalPosition = run.photos[run.index].position
             /\ extraction.outcome.analysis.landmarks = ExtractedFrom
             /\ FiniteAngles(extraction.outcome.analysis)

\* an array of 32 entries holding all six joints is rejected while the
\* three o'clock photo is processed
C17_Witness ==
    /\ AnalyzeBikeFitCalled
    /\ Cardinality(DOMAIN ExtractedFrom) = 32
    /\ \A j \in {12, 14, 16, 24, 26, 28} : ~JointAbsent(ExtractedFrom, j)
    /\ run.photos[run.index].position = "3-oclock"
    /\ ~extraction.outcome.ok
    /\ Includes(extraction.outcome.message, "landmarks")

\* C19: the step of handleAnalyze that follows a failed extraction of either
\* photo ends the call: no request is sent, nothing is stored, no navigation
\* is scheduled or made, an alert is shown and analyzing is false again
C19_AbortOnFailedExtraction ==
    [][ (run.at = "extract" /\ extraction.settled /\ ~extraction.outcome.ok /\ run' # run) =>
          /\ run' = NoRun
          /\ body = NoBody /\ body' = NoBody
          /\ localStorage' = localStorage
          /\ route' = route /\ timer' = timer
          /\ alerted' # <<>>
          /\ analyzing /\ ~analyzing'
          /\ analysisProgress' = "" ]_vars

\* a photo failed for a missing joint or a short array: the alert names the
\* body parts, the page is idle again, nothing was sent or stored
C19_Witness ==
    /\ run = NoRun /\ ~analyzing /\ analysisProgress = ""
    /\ alerted = <<"Could not detect all body parts clearly in one of the photos. Please ensure good lighting and clear view of your riding position.">>
    /\ body = NoBody /\ localStorage = NoItem /\ ~timer /\ route = "/upload"

(***************************************************************************)
(* The legacy single-photo path                                            *)
(***************************************************************************)
InBand(x, lo, hi) == Ge(x, Deg(lo)) /\ Le(x, Deg(hi))

\* C21 as claimed: a legacy request whose knee, torso and elbow angles lie in
\* the bands [25,35], [35,55] and [150,165] is scored 100
C21_LegacyBandsAsClaimed ==
    (Legacy /\ FiniteAngles(body.angles)
       /\ InBand(body.angles.kneeAngle, 25, 35)
       /\ InBand(body.angles.torsoAngle, 35, 55)
       /\ InBand(body.angles.elbowAngle, 150, 165)) =>
        response.overallScore = Deg(100)

Direction(rec) ==
    CASE rec.adjustment \in {"Raise saddle by 5-10mm", "Raise saddle by 5-15mm"} -> "raise"
      [] rec.adjustment \in {"Lower saddle by 5-10mm", "Lower saddle by 5-15mm"} -> "lower"
      [] OTHER -> "none"
SaddleAdvice(recs) ==
    { [direction |-> Direction(recs[i]), priority |-> recs[i].priority,
       currentValue |-> recs[i].currentValue,
       recommendedValue |-> recs[i].recommendedValue] : i \in OfType(recs, "saddle_height") }
\* the two-photo recommendations for a six o'clock record with the legacy
\* request's knee angle, for several three o'clock records
EnhancedForKnee(angles, three) ==
    generateEnhancedRecommendations(angles, three, NeutralKOPS,
                                    analyzePosturalConsistency(angles, three))

\* C22: the legacy recommendations hold a saddle_height entry exactly when the
\* two-photo recommendations for the same six o'clock knee angle do, with the
\* same direction, priority, currentValue and recommendedValue, and hold
\* no entry of another type
C22_LegacySaddleRule ==
    Legacy =>
        /\ \A i \in 1..Len(response.recommendations) :
              response.recommendations[i].type = "saddle_height"
        /\ Len(response.recommendations) <= 1
        /\ \A three \in {SampleThree, body.angles} :
              /\ Cardinality(OfType(EnhancedForKnee(body.angles, three), "saddle_height"))
                   = Len(response.recommendations)
              /\ SaddleAdvice(EnhancedForKnee(body.angles, three))
                   = SaddleAdvice(response.recommendations)

\* a legacy request with a knee angle just above 35 is advised to lower the
\* saddle, as the two-photo path advises
C22_Witness ==
    /\ Legacy
    /\ body.angles.kneeAngle = Deg(35) + Tenths(1)
    /\ Len(response.recommendations) = 1
    /\ Direction(response.recommendations[1]) = "lower"
    /\ SaddleAdvice(EnhancedForKnee(body.angles, SampleThree))
         = SaddleAdvice(response.recommendations)

(***************************************************************************)
(* The leg measured by the two components                                  *)
(***************************************************************************)
PositionOf(landmarks, i) == [x |-> At(landmarks, i).x, y |-> At(landmarks, i).y]

\* C23 as claimed: calculateKOPS reads the knee and the ankle at the indices
\* at which analyzeBikeFit reads them, so the knee and pedal positions of the
\* KOPS result for a request sent by the upload page are the knee and ankle
\* landmarks from which the three o'clock knee angle was measured
C23_SameLegAsClaimed ==
    (Answered /\ KOPSComputed) =>
        /\ RIGHT_KNEE = POSE_LANDMARKS.RIGHT_KNEE
        /\ RIGHT_ANKLE = POSE_LANDMARKS.RIGHT_ANKLE
        /\ response.kopsAnalysis.kneePosition
             = PositionOf(ReqThree.landmarks, POSE_LANDMARKS.RIGHT_KNEE)
        /\ response.kopsAnalysis.pedalPosition
             = PositionOf(ReqThree.landmarks, POSE_LANDMARKS.RIGHT_ANKLE)

(***************************************************************************)
(* The handler's data flow                                                 *)
(***************************************************************************)
PostAnswers == body # NoBody /\ response = NoResponse /\ response' # NoResponse

\* C25: the step that answers a two-photo request leaves the request and its
\* two feature records as received; the report carries these records in
\* sixOClockAnalysis and threeOClockAnalysis, and its KOPS and consistency
\* results are the ones computed from them, untouched by the recommendation
\* and score computations
C25_UpstreamUnchanged ==
    [][ (PostAnswers /\ response'.kind = "enhanced") =>
          /\ body' = body
          /\ response'.sixOClockAnalysis = ReqSix
          /\ response'.threeOClockAnalysis = ReqThree
          /\ response'.kopsAnalysis = KOPSOrNeutral(ReqThree)
          /\ response'.posturalConsistency = analyzePosturalConsistency(ReqSix, ReqThree)
          /\ response'.kopsAnalysis.isOptimal
               = Le(MathAbs(response'.kopsAnalysis.horizontalOffset), KOPSLimit)
          /\ response'.posturalConsistency.isConsistent
               = (response'.posturalConsistency.issues = <<>>) ]_vars

\* a report with a saddle_fore_aft recommendation, computed with the default
\* image width, carries the three o'clock record without a width as it was sent
C25_Witness ==
    /\ Answered /\ Enhanced
    /\ HasType(response.recommendations, "saddle_fore_aft")
    /\ ~IsNum(ReqThree.imageWidth)
    /\ response.threeOClockAnalysis = ReqThree
    /\ response.sixOClockAnalysis = ReqSix

\* the request with its two photos in the other order
Swapped(b) == [b EXCEPT !.photos = <<b.photos[2], b.photos[1]>>]
OnePhotoPerPosition(b) ==
    /\ b.contentType = "json" /\ b.parses
    /\ b.photosIsArray /\ Len(b.photos) = 2
    /\ {b.photos[1].position, b.photos[2].position} = {"6-oclock", "3-oclock"}

\* C27: the answer to a request with one six o'clock and one three o'clock
\* photo is the answer to the request with the two photos in the other order
C27_PhotoOrderIrrelevant ==
    (Answered /\ OnePhotoPerPosition(body)) =>
        /\ response = JsonResult(Swapped(body))
        /\ console = Warnings(Swapped(body))

\* a request with the three o'clock photo first got a report with a
\* saddle_fore_aft recommendation, the report of the request in the usual order
C27_Witness ==
    /\ Answered /\ OnePhotoPerPosition(body)
    /\ body.photos[1].position = "3-oclock"
    /\ Enhanced
    /\ HasType(response.recommendations, "saddle_fore_aft")
    /\ response.threeOClockAnalysis = body.photos[1].analysis
    /\ response = JsonResult(Swapped(body))

\* the type field of a recommendation (types/index.ts 64)
RecommendationTypes ==
    {"saddle_height", "saddle_fore_aft", "handlebar_height", "stem_length",
     "cleat_position", "core_stability"}

\* C28: the recommendations of a two-photo report hold at most one entry of
\* each type and at most five entries, none of type cleat_position; an entry
\* has priority high only if it is saddle_height, and a saddle_height entry
\* is the first; an entry has priority low only if it is core_stability, and
\* a core_stability entry is the last
C28_RecommendationShape ==
    Enhanced =>
        LET recs == response.recommendations
        IN  /\ Len(recs) <= 5
            /\ \A t \in RecommendationTypes : Cardinality(OfType(recs, t)) <= 1
            /\ \A i \in 1..Len(recs) :
                  /\ recs[i].type \in RecommendationTypes \ {"cleat_position"}
                  /\ recs[i].priority = "high" => recs[i].type = "saddle_height"
                  /\ recs[i].type = "saddle_height" => i = 1
                  /\ recs[i].priority = "low" => recs[i].type = "core_stability"
                  /\ recs[i].type = "core_stability" => i = Len(recs)

\* a report with all five recommendations
C28_Witness ==
    /\ Enhanced
    /\ Len(response.recommendations) = 5
    /\ response.recommendations[1].type = "saddle_height"
    /\ response.recommendations[1].priority = "high"
    /\ response.recommendations[5].type = "core_stability"
    /\ response.recommendations[5].priority = "low"

(***************************************************************************)
(* The upload page's photos                                                *)
(***************************************************************************)
PhotosAt(ps, position) == {ps[i] : i \in {j \in 1..Len(ps) : ps[j].position = position}}
OnePerPosition(ps) ==
    /\ Len(ps) <= 2
    /\ \A i \in 1..Len(ps) : ps[i].position \in Positions
    /\ \A i, j \in 1..Len(ps) : ps[i].position = ps[j].position => i = j
BothPositions(ps) ==
    Len(ps) = 2 /\ OnePerPosition(ps) /\ \A position \in Positions : HasPosition(ps, position)

\* C29: after every step of the upload page the photos hold at most one
\* photo per pedal position and at most two, two photos are one of each
\* position, a step that changes the photos changes them for one position
\* and leaves the other position's photo as it was, and a run started by
\* handleAnalyze and the request it sends carry one six o'clock and one
\* three o'clock photo
C29_OnePhotoPerPosition ==
    [][ /\ OnePerPosition(photos')
        /\ Len(photos') = 2 => (hasRequiredPhotos' /\ BothPositions(photos'))
        /\ photos' # photos =>
              \E position \in Positions :
                  \A other \in Positions \ {position} :
                      PhotosAt(photos', other) = PhotosAt(photos, other)
        /\ (run.at = "idle" /\ run'.at # "idle") =>
              /\ Len(photos) >= 2 /\ mediaPipeReady
              /\ run'.photos = photos
              /\ BothPositions(run'.photos)
        /\ body' # NoBody => (OnePhotoPerPosition(body') /\ BothPositions(body'.photos)) ]_vars

\* with a photo for each position selected, the six o'clock photo has been
\* replaced by another file, and the run started from these photos
C29_Witness ==
    /\ run.at = "extract"
    /\ BothPositions(run.photos)
    /\ run.photos[1].position = "3-oclock"
    /\ run.photos[1].file.name = "three.png"
    /\ run.photos[2].position = "6-oclock"
    /\ run.photos[2].file.name = "three.png"

(***************************************************************************)
(* The end of an analysis run                                              *)
(***************************************************************************)
FreshRun == [at |-> "extract", photos |-> photos, index |-> 1, analyzedPhotos |-> <<>>]

\* C30: once analyzing is true it becomes false again with the progress text
\* cleared, whichever way the run goes; analyzing is true exactly while a
\* run is in progress, the Analyze button is disabled all that time, and no
\* step starts a run while one is in progress
C30_RunEnds ==
    /\ analyzing ~> (~analyzing /\ analysisProgress = "" /\ run = NoRun)
    /\ [](analyzing <=> run.at # "idle")
    /\ [](analyzing => AnalyzeDisabled)
    /\ [][ run.at # "idle" => (run' = run \/ run' # FreshRun) ]_vars

\* a run that stored its result and scheduled the navigation has ended:
\* analyzing is false and the progress text is empty
C30_Witness ==
    /\ timer /\ localStorage # NoItem
    /\ run = NoRun /\ ~analyzing /\ analysisProgress = ""
    /\ ~AnalyzeDisabled

(***************************************************************************)
(* Concurrent requests                                                     *)
(***************************************************************************)
\* the requests answered so far and those answered but not yet sent
Answers ==
    answers \cup { <<inFlight[i].body, inFlight[i].response>> :
                     i \in {j \in 1..MaxInFlight : inFlight[j].at = "returned"} }

\* C24: whatever requests were answered before and whatever invocations run
\* at the same time, two answers to the same JSON analysis request are the
\* same report
C24_ReportDependsOnBodyOnly ==
    \A p, q \in Answers : p[1] = q[1] => p[2] = q[2]

\* the two-photo request has been answered with a report after a legacy
\* request was answered, and is answered again while another invocation,
\* called with the legacy request, is waiting for its body
C24_Witness ==
    \E b \in ConcurrentBodies, l \in ConcurrentBodies :
        /\ b.photosIsArray /\ l.angles.present
        /\ \E r \in {p \in answers : p[1] = b} : r[2].kind = "enhanced"
        /\ \E r \in {p \in answers : p[1] = l} : r[2].kind = "legacy"
        /\ \E i, j \in 1..MaxInFlight :
              /\ inFlight[i].at = "returned" /\ inFlight[i].body = b
              /\ inFlight[i].response.kind = "enhanced"
              /\ inFlight[j].at = "awaiting" /\ inFlight[j].body = l

(***************************************************************************)
(* The angles of the feature record                                        *)
(***************************************************************************)
InDegrees(v, lo, hi) == IsNum(v) /\ Deg(lo) <= v /\ v <= Deg(hi)
Joint(name) == At(ExtractedFrom, POSE_LANDMARKS[name])
VerticalOf(hip) == Landmark(hip.x, hip.y - (Q \div 10))
Coincident(a, b) == a.x = b.x /\ a.y = b.y

\* C26: for the joints of every pose analyzeBikeFit accepts, joints on the
\* same point included, the interior angles at the knee, the hip and the
\* elbow lie in [0,180], the knee bend angle is 180 minus the interior angle
\* at the knee and lies in [0,180], and the knee, torso and elbow angles of
\* the feature record are numbers in [0,180]
C26_AnglesInRange ==
    (extraction.settled /\ extraction.outcome.ok) =>
        LET hip == Joint("RIGHT_HIP")
            knee == Joint("RIGHT_KNEE")
            ankle == Joint("RIGHT_ANKLE")
            shoulder == Joint("RIGHT_SHOULDER")
            elbow == Joint("RIGHT_ELBOW")
            wrist == Joint("RIGHT_WRIST")
            analysis == extraction.outcome.analysis
        IN  /\ InDegrees(calculateInteriorAngle(hip, knee, ankle), 0, 180)
            /\ InDegrees(calculateInteriorAngle(VerticalOf(hip), hip, shoulder), 0, 180)
            /\ InDegrees(calculateInteriorAngle(shoulder, elbow, wrist), 0, 180)
            /\ calculateKneeBendAngle(hip, knee, ankle)
                 + calculateInteriorAngle(hip, knee, ankle) = Deg(180)
            /\ InDegrees(calculateKneeBendAngle(hip, knee, ankle), 0, 180)
            /\ InDegrees(analysis.kneeAngle, 0, 180)
            /\ InDegrees(analysis.torsoAngle, 0, 180)
            /\ InDegrees(analysis.elbowAngle, 0, 180)

\* hip, knee and ankle on the same point: the interior angle is 0 and the
\* record carries a knee angle of 180
C26_Witness ==
    /\ extraction.settled /\ extraction.outcome.ok
    /\ Coincident(Joint("RIGHT_HIP"), Joint("RIGHT_KNEE"))
    /\ Coincident(Joint("RIGHT_KNEE"), Joint("RIGHT_ANKLE"))
    /\ calculateInteriorAngle(Joint("RIGHT_HIP"), Joint("RIGHT_KNEE"), Joint("RIGHT_ANKLE")) = 0
    /\ extraction.outcome.analysis.kneeAngle = Deg(180)

====
